---- MODULE Spec2Model ----
(***************************************************************************)
(* The client-side synchronisation engine of the daily journal:            *)
(*   - the journal day view (JournalDayView.tsx): the draft record, the    *)
(*     dirty set, the entries sync effect and the rendered list rows;      *)
(*   - the entry collection store (useTodayEntry.ts);                      *)
(*   - the debounce timers of one editable unit (EntryBlock.tsx and the    *)
(*     TipTap editor it wraps);                                            *)
(*   - the API client with its single-flight session refresh (client.ts).  *)
(*                                                                         *)
(* The UI runs on one event loop.  One action of this module is one task   *)
(* of that loop together with the microtasks, the React render and the     *)
(* effects it triggers (React 18 batches the state updates of one task);   *)
(* an awaited network call ends the action and its response is a later     *)
(* action.                                                                 *)
(***************************************************************************)
EXTENDS Integers, Sequences, FiniteSets, TLC

(***************************************************************************)
(* Bounds of the model.                                                    *)
(***************************************************************************)
NumDates == 2
MaxIds == 2
MaxLoads == 1

Dates == 1..NumDates
NoId == 0

(***************************************************************************)
(* Text.  A text is a sequence of characters; what the user can type into  *)
(* an editor is drawn from RawInputs.                                      *)
(***************************************************************************)
Empty == <<>>
NoEdit == <<"none">>
RawInputs == { <<>>, <<" ">>, <<"a">>, <<"a", " ">>, <<"b">> }

RECURSIVE TrimStart(_)
TrimStart(s) ==
  IF s = <<>> THEN s
  ELSE IF Head(s) = " " THEN TrimStart(Tail(s)) ELSE s

RECURSIVE TrimEnd(_)
TrimEnd(s) ==
  IF s = <<>> THEN s
  ELSE IF s[Len(s)] = " " THEN TrimEnd(SubSeq(s, 1, Len(s) - 1)) ELSE s

\* String.prototype.trim
Trim(s) == TrimEnd(TrimStart(s))

\* TipTapEditor.htmlToMarkdown: the markdown of the editor's document, trimmed
htmlToMarkdown(raw) == IF Trim(raw) = Empty THEN Empty ELSE Trim(raw)

VARIABLES
  \* ---- useTodayEntry (entry collection store)
  targetDate,              \* the scope date being viewed
  entries,                 \* sequence of [id, date, content]
  loading,
  isSavingRef,             \* createEntry's in-flight flag
  \* ---- JournalDayView
  draftEntryId,            \* NoId = null
  draftContent,
  isSavingDraftRef,
  pendingDraftEntryIdRef,  \* NoId = null
  otherEntries,            \* the memoised list rows: ids, in display order
  \* ---- EntryBlock / TipTapEditor of the draft unit
  blockTimer,              \* EntryBlock.saveTimeoutRef
  editorTimer,             \* TipTapEditor.saveTimeoutRef
  \* ---- persistence gateway
  inflight,                \* requests sent and not yet answered
  server,                  \* set of [id, date, content] held by the backend
  nextId,
  \* ---- history (observation only)
  lastEdit,                \* the latest text the user typed into the draft of
                           \* this scope date, NoEdit before the first edit
  trig,                    \* what the last non-empty save trigger that arrived
                           \* while a create was in flight did
  scen,                    \* progress of "empty draft, one edit, debounce"
  draftMade,               \* ids the draft's creates returned since its last reset
  owed                     \* the text of a manual trigger that returned at the
                           \* in-flight guard and that no edit or trigger
                           \* followed, NoEdit otherwise

syncVars ==
  << targetDate, entries, loading, isSavingRef, draftEntryId, draftContent,
     isSavingDraftRef, pendingDraftEntryIdRef, otherEntries, blockTimer,
     editorTimer,
     inflight, server, nextId, lastEdit, trig, scen, draftMade, owed >>

NoTimer == [on |-> FALSE, content |-> Empty, draftEntryId |-> NoId]

Timer(content, closureDraftEntryId) ==
  [on |-> TRUE, content |-> content, draftEntryId |-> closureDraftEntryId]

Entry(id, date, content) == [id |-> id, date |-> date, content |-> content]

Request(kind, id, date, content) ==
  [kind |-> kind, id |-> id, date |-> date, content |-> content,
   latest |-> Trim(lastEdit), draftIdAtIssue |-> draftEntryId]

\* one loadEntries call; n tells apart two loads of the same date
ListRequest(date, n) ==
  [kind |-> "list", id |-> n, date |-> date, content |-> Empty,
   latest |-> Empty, draftIdAtIssue |-> NoId]

Range(s) == { s[i] : i \in 1..Len(s) }

RECURSIVE SeqOfSet(_)
\* the entries of a set in ascending id order
SeqOfSet(S) ==
  IF S = {} THEN <<>>
  ELSE LET m == CHOOSE e \in S : \A f \in S : e.id <= f.id
       IN  <<m>> \o SeqOfSet(S \ {m})

\* journalApi.getByDate as the backend answers it
listEntries(date) == SeqOfSet({ e \in server : e.date = date })

(***************************************************************************)
(* JournalDayView: the entries sync effect.  It runs after a render in     *)
(* which entries, draftEntryId or targetDate changed, on the values of     *)
(* that render; prev is the draft content the queued updater is applied to.*)
(***************************************************************************)
SyncEffect(ents, closureDraftEntryId, prevDraftEntryId, prev, savingDraft) ==
  IF closureDraftEntryId # NoId
  THEN IF \E e \in Range(ents) : e.id = closureDraftEntryId
       THEN LET matching == CHOOSE e \in Range(ents) : e.id = closureDraftEntryId
            IN  [draftEntryId |-> prevDraftEntryId,
                 draftContent |-> IF prev = matching.content THEN prev ELSE matching.content]
       ELSE IF ~savingDraft
            THEN [draftEntryId |-> NoId, draftContent |-> Empty]
            ELSE [draftEntryId |-> prevDraftEntryId, draftContent |-> prev]
  ELSE [draftEntryId |-> prevDraftEntryId, draftContent |-> prev]

(***************************************************************************)
(* JournalDayView: the otherEntries memo.  It is recomputed in a render in *)
(* which entries, draftEntryId or draftContent changed and reads the two   *)
(* refs as they are at that moment.                                        *)
(***************************************************************************)
ComputeOtherEntries(ents, dId, dContent, savingDraft, pending) ==
  LET effectiveDraftEntryId == IF dId # NoId THEN dId ELSE pending
      Keep(e) ==
        /\ e.id # effectiveDraftEntryId
        /\ ~(/\ dId = NoId
              /\ savingDraft
              /\ Trim(dContent) # Empty
              /\ Trim(e.content) = Trim(dContent))
      filtered == SelectSeq(ents, Keep)
  IN  [i \in 1..Len(filtered) |-> filtered[i].id]

(***************************************************************************)
(* The state after construction: the view is mounted for date 1, the first *)
(* load is in flight, the backend holds nothing or one committed entry.    *)
(***************************************************************************)
InitSync ==
  /\ targetDate = 1
  /\ entries = <<>>
  /\ loading = TRUE
  /\ isSavingRef = FALSE
  /\ draftEntryId = NoId
  /\ draftContent = Empty
  /\ isSavingDraftRef = FALSE
  /\ pendingDraftEntryIdRef = NoId
  /\ otherEntries = <<>>
  /\ blockTimer = NoTimer
  /\ editorTimer = NoTimer
  /\ inflight = { ListRequest(1, 1) }
  /\ \E pre \in { {}, { Entry(1, 1, <<"b">>) } } :
       /\ server = pre
       /\ nextId = Cardinality(pre) + 1
  /\ lastEdit = NoEdit
  /\ trig = "none"
  /\ scen = "off"
  /\ draftMade = {}
  /\ owed = NoEdit

HasCreateInFlight == \E r \in inflight : r.kind = "create"

\* the draft of the viewed date has a create or update of its own in flight
DraftSaveInFlight ==
  \E r \in inflight : r.kind \in {"create", "update"} /\ r.date = targetDate

\* the Draft Record is EMPTY
EmptyRecord ==
  /\ draftEntryId = NoId
  /\ draftContent = Empty
  /\ pendingDraftEntryIdRef = NoId

\* handleDraftSave without the isSavingDraftRef half of its entry guard
handleDraftSave_NoInFlightGuard(st, content, closureDraftEntryId) ==
  LET trimmed == Trim(content) IN
  IF trimmed = Empty
  THEN st
  ELSE IF closureDraftEntryId = NoId
       THEN IF st.isSavingRef
            THEN [st EXCEPT !.isSavingDraftRef = FALSE]
            ELSE [st EXCEPT !.isSavingDraftRef = TRUE,
                            !.isSavingRef = TRUE,
                            !.inflight = @ \cup
                               { Request("create", NoId, targetDate, trimmed) }]
       ELSE [st EXCEPT !.isSavingDraftRef = TRUE,
                       !.inflight = @ \cup
                          { Request("update", closureDraftEntryId, targetDate, trimmed) }]

(***************************************************************************)
(* JournalDayView.handleDraftSave up to its first awaited network call.    *)
(* st carries the two in-flight flags and the requests; the closure's      *)
(* draftEntryId is the one of the render that created the callback.        *)
(***************************************************************************)
handleDraftSave(st, content, closureDraftEntryId) ==
  LET trimmed == Trim(content) IN
  IF trimmed = Empty \/ st.isSavingDraftRef
  THEN st
  ELSE IF closureDraftEntryId = NoId
       THEN \* useTodayEntry.createEntry
            IF st.isSavingRef
            THEN [st EXCEPT !.isSavingDraftRef = FALSE]
            ELSE [st EXCEPT !.isSavingDraftRef = TRUE,
                            !.isSavingRef = TRUE,
                            !.inflight = @ \cup
                               { Request("create", NoId, targetDate, trimmed) }]
       ELSE \* useTodayEntry.updateEntry
            [st EXCEPT !.isSavingDraftRef = TRUE,
                       !.inflight = @ \cup
                          { Request("update", closureDraftEntryId, targetDate, trimmed) }]

Flags ==
  [isSavingDraftRef |-> isSavingDraftRef, isSavingRef |-> isSavingRef,
   inflight |-> inflight]

\* EntryBlock.handleSaveNow of the draft block: the block's timer is
\* cancelled by the caller, the save goes out as a manual one
handleSaveNow(st, content, closureDraftEntryId) ==
  handleDraftSave(st, content, closureDraftEntryId)

\* history: the text a manual trigger leaves unsaved when it arrives while a
\* save of the draft with another text is in flight and issues nothing
OwedAfter(st) ==
  IF /\ st.inflight = inflight
     /\ Trim(draftContent) # Empty
     /\ DraftSaveInFlight
     /\ \A r \in inflight :
          r.kind \in {"create", "update"} => r.content # Trim(draftContent)
  THEN Trim(draftContent)
  ELSE NoEdit

\* history: a non-empty trigger that arrived while a create was in flight
TrigAfter(nonEmpty, st) ==
  IF HasCreateInFlight
  THEN IF st.inflight # inflight THEN "issued"
       ELSE IF nonEmpty THEN "suppressed" ELSE trig
  ELSE trig

(***************************************************************************)
(* The user types into the draft editor: TipTapEditor.onUpdate calls       *)
(* EntryBlock.handleChange (which re-arms the block's timer for non-empty  *)
(* content) and then re-arms the editor's own timer.  Both callbacks close *)
(* over the draftEntryId of the current render.                            *)
(***************************************************************************)
DraftEdit(raw) ==
  LET markdown == htmlToMarkdown(raw) IN
  /\ ~loading
  /\ markdown # draftContent
  /\ draftContent' = markdown
  /\ blockTimer' = IF Trim(markdown) # Empty
                   THEN Timer(markdown, draftEntryId) ELSE NoTimer
  /\ editorTimer' = Timer(markdown, draftEntryId)
  /\ otherEntries' = ComputeOtherEntries(entries, draftEntryId, markdown,
                                          isSavingDraftRef, pendingDraftEntryIdRef)
  /\ lastEdit' = markdown
  /\ owed' = NoEdit
  /\ scen' = IF EmptyRecord /\ ~DraftSaveInFlight THEN "edited" ELSE "off"
  /\ UNCHANGED << targetDate, entries, loading, isSavingRef, draftEntryId,
                  isSavingDraftRef, pendingDraftEntryIdRef, inflight, server,
                  nextId, trig, draftMade >>

(***************************************************************************)
(* The debounce interval elapses with no further input.  The two timers    *)
(* of a unit are armed by the same keystroke with the same delay, so they  *)
(* expire together: the block's timer first (armed first), the editor's    *)
(* timer, which calls handleSaveNow, right after it.                       *)
(***************************************************************************)
DraftDebounce ==
  /\ blockTimer.on \/ editorTimer.on
  /\ LET st1 == IF blockTimer.on
                THEN handleDraftSave(Flags, blockTimer.content, blockTimer.draftEntryId)
                ELSE Flags
         st2 == IF editorTimer.on
                THEN handleSaveNow(st1, editorTimer.content, editorTimer.draftEntryId)
                ELSE st1
     IN  /\ isSavingDraftRef' = st2.isSavingDraftRef
         /\ isSavingRef' = st2.isSavingRef
         /\ inflight' = st2.inflight
         /\ trig' = TrigAfter(blockTimer.on, st2)
  /\ blockTimer' = NoTimer
  /\ editorTimer' = NoTimer
  /\ scen' = IF scen = "edited" THEN "fired" ELSE "off"
  /\ UNCHANGED << targetDate, entries, loading, draftEntryId, draftContent,
                  pendingDraftEntryIdRef, otherEntries, server, nextId,
                  lastEdit, draftMade, owed >>

(***************************************************************************)
(* Cmd/Ctrl+Enter in the draft editor: TipTapEditor.handleKeyDown clears   *)
(* the editor's timer and calls the latest handleSaveNow with the          *)
(* document's markdown; handleSaveNow clears the block's timer.            *)
(***************************************************************************)
DraftManualSave ==
  /\ ~loading
  /\ LET st == handleSaveNow(Flags, htmlToMarkdown(draftContent), draftEntryId)
     IN  /\ isSavingDraftRef' = st.isSavingDraftRef
         /\ isSavingRef' = st.isSavingRef
         /\ inflight' = st.inflight
         /\ trig' = TrigAfter(Trim(draftContent) # Empty, st)
         /\ owed' = OwedAfter(st)
  /\ blockTimer' = NoTimer
  /\ editorTimer' = NoTimer
  /\ scen' = "off"
  /\ UNCHANGED << targetDate, entries, loading, draftEntryId, draftContent,
                  pendingDraftEntryIdRef, otherEntries, server, nextId,
                  lastEdit, draftMade >>

\* useTodayEntry.loadEntries up to its awaited getByDate
loadEntries(reqs, date) ==
  LET n == 1 + Cardinality({ r \in reqs : r.kind = "list" /\ r.date = date })
  IN  reqs \cup { ListRequest(date, n) }

LoadsInFlight == Cardinality({ r \in inflight : r.kind = "list" })

\* setEntries((prev) => prev.map((e) => (e.id === id ? updated : e)))
ReplaceEntry(ents, updated) ==
  [i \in 1..Len(ents) |-> IF ents[i].id = updated.id THEN updated ELSE ents[i]]

\* setEntries((prev) => [...prev, saved]) without the presence test
AppendEntry_NoGuard(ents, saved) == Append(ents, saved)

\* setEntries((prev) => prev.some(same id) ? prev : [...prev, saved])
AppendEntry(ents, saved) ==
  IF \E e \in Range(ents) : e.id = saved.id THEN ents ELSE Append(ents, saved)

(***************************************************************************)
(* The backend answers a createEntry: useTodayEntry.createEntry appends    *)
(* the saved entry and releases its flag; handleDraftSave then sets the    *)
(* pending ref, draftEntryId and draftContent, arms the 100 ms timer that  *)
(* clears the pending ref and releases the draft's flag.  React renders    *)
(* once after the task and the sync effect runs on that render.            *)
(***************************************************************************)
CreateResponseOk(r) ==
  /\ r \in inflight
  /\ r.kind = "create"
  /\ nextId <= MaxIds
  /\ LET saved == Entry(nextId, r.date, r.content)
         ents1 == AppendEntry(entries, saved)
         eff   == SyncEffect(ents1, saved.id, saved.id, saved.content, FALSE)
     IN  /\ server' = server \cup {saved}
         /\ nextId' = nextId + 1
         /\ entries' = ents1
         /\ pendingDraftEntryIdRef' = saved.id
         /\ draftEntryId' = eff.draftEntryId
         /\ draftContent' = eff.draftContent
         /\ otherEntries' = ComputeOtherEntries(ents1, eff.draftEntryId,
                                                 eff.draftContent, FALSE, saved.id)
         /\ draftMade' = draftMade \cup {saved.id}
  /\ inflight' = inflight \ {r}
  /\ isSavingRef' = FALSE
  /\ isSavingDraftRef' = FALSE
  /\ trig' = "none"
  /\ scen' = IF scen = "fired" /\ r.date = targetDate THEN "done"
             ELSE IF scen = "done" THEN "off" ELSE scen
  /\ UNCHANGED << targetDate, loading, blockTimer, editorTimer, lastEdit, owed >>

(***************************************************************************)
(* The backend answers an updateEntry of the draft's entry.                *)
(***************************************************************************)
UpdateResponseOk(r) ==
  /\ r \in inflight
  /\ r.kind = "update"
  /\ \E old \in server :
       /\ old.id = r.id
       /\ LET updated == Entry(r.id, old.date, r.content)
              ents1   == ReplaceEntry(entries, updated)
              eff     == SyncEffect(ents1, draftEntryId, draftEntryId, r.content, FALSE)
          IN  /\ server' = (server \ {old}) \cup {updated}
              /\ entries' = ents1
              /\ draftEntryId' = eff.draftEntryId
              /\ draftContent' = eff.draftContent
              /\ otherEntries' = ComputeOtherEntries(ents1, eff.draftEntryId,
                                     eff.draftContent, FALSE, pendingDraftEntryIdRef)
              /\ draftMade' = IF eff.draftEntryId = NoId THEN {} ELSE draftMade
  /\ inflight' = inflight \ {r}
  /\ isSavingDraftRef' = FALSE
  /\ scen' = IF scen = "done" THEN "off" ELSE scen
  /\ UNCHANGED << targetDate, loading, isSavingRef, pendingDraftEntryIdRef,
                  blockTimer, editorTimer, nextId, lastEdit, trig, owed >>

\* a failure handler that gives the draft up: it empties the Draft Record as
\* the date-change reset does
SaveResponseFail_ResetsDraft(r) ==
  /\ r \in inflight
  /\ r.kind \in {"create", "update"}
  /\ inflight' = inflight \ {r}
  /\ pendingDraftEntryIdRef' = NoId
  /\ isSavingDraftRef' = FALSE
  /\ isSavingRef' = IF r.kind = "create" THEN FALSE ELSE isSavingRef
  /\ trig' = IF r.kind = "create" THEN "none" ELSE trig
  /\ scen' = "off"
  /\ draftEntryId' = NoId
  /\ draftContent' = Empty
  /\ otherEntries' = ComputeOtherEntries(entries, NoId, Empty, FALSE, NoId)
  /\ draftMade' = {}
  /\ UNCHANGED << targetDate, entries, loading, blockTimer, editorTimer, server,
                  nextId, lastEdit, owed >>

\* a failure handler without the finally block of handleDraftSave: the
\* draft's flag stays set
SaveResponseFail_KeepsFlag(r) ==
  /\ r \in inflight
  /\ r.kind \in {"create", "update"}
  /\ inflight' = inflight \ {r}
  /\ pendingDraftEntryIdRef' = NoId
  /\ isSavingRef' = IF r.kind = "create" THEN FALSE ELSE isSavingRef
  /\ trig' = IF r.kind = "create" THEN "none" ELSE trig
  /\ scen' = "off"
  /\ UNCHANGED << targetDate, entries, loading, draftEntryId, draftContent,
                  isSavingDraftRef, otherEntries, blockTimer, editorTimer,
                  server, nextId, lastEdit, draftMade, owed >>

(***************************************************************************)
(* A createEntry or updateEntry of the draft fails (network, timeout,      *)
(* rejected): the catch clears the pending ref, the finally blocks release *)
(* the flags.                                                              *)
(***************************************************************************)
SaveResponseFail(r) ==
  /\ r \in inflight
  /\ r.kind \in {"create", "update"}
  /\ inflight' = inflight \ {r}
  /\ pendingDraftEntryIdRef' = NoId
  /\ isSavingDraftRef' = FALSE
  /\ isSavingRef' = IF r.kind = "create" THEN FALSE ELSE isSavingRef
  /\ trig' = IF r.kind = "create" THEN "none" ELSE trig
  /\ scen' = IF scen = "done" THEN "off"
             ELSE IF scen = "fired" /\ r.kind = "create" /\ r.date = targetDate
                  THEN "off" ELSE scen
  /\ UNCHANGED << targetDate, entries, loading, draftEntryId, draftContent,
                  otherEntries, blockTimer, editorTimer, server, nextId, lastEdit, draftMade,
                  owed >>

(***************************************************************************)
(* A loadEntries call completes: the collection is replaced by the answer  *)
(* (by the empty list on failure), loading ends, the sync effect runs.     *)
(***************************************************************************)
ListResponse(r, ok) ==
  /\ r \in inflight
  /\ r.kind = "list"
  /\ LET ents1 == IF ok THEN listEntries(r.date) ELSE <<>>
         eff   == SyncEffect(ents1, draftEntryId, draftEntryId, draftContent,
                             isSavingDraftRef)
     IN  /\ entries' = ents1
         /\ draftEntryId' = eff.draftEntryId
         /\ draftContent' = eff.draftContent
         /\ otherEntries' = ComputeOtherEntries(ents1, eff.draftEntryId,
                                eff.draftContent, isSavingDraftRef,
                                pendingDraftEntryIdRef)
         /\ draftMade' = IF eff.draftEntryId = NoId THEN {} ELSE draftMade
  /\ loading' = FALSE
  /\ inflight' = inflight \ {r}
  /\ scen' = IF scen = "done" THEN "off" ELSE scen
  /\ UNCHANGED << targetDate, isSavingRef, isSavingDraftRef,
                  pendingDraftEntryIdRef, blockTimer, editorTimer, server,
                  nextId, lastEdit, trig, owed >>

(***************************************************************************)
(* The viewed scope date changes (same mounted view, new date prop).  In   *)
(* the commit of that render useTodayEntry's effect starts a load, the     *)
(* reset effect empties the draft, and the sync effect runs on the values  *)
(* of the same render, i.e. on the old entries and the old draftEntryId,   *)
(* its updates queued behind those of the reset effect.  With loading set  *)
(* the editors unmount, which clears their timers.                         *)
(***************************************************************************)
Navigate(d, maxLoads) ==
  /\ d # targetDate
  /\ LoadsInFlight < maxLoads
  /\ targetDate' = d
  /\ loading' = TRUE
  /\ inflight' = loadEntries(inflight, d)
  /\ LET eff == SyncEffect(entries, draftEntryId, NoId, Empty, isSavingDraftRef)
     IN  /\ draftEntryId' = eff.draftEntryId
         /\ draftContent' = eff.draftContent
         /\ otherEntries' =
              IF eff.draftEntryId # draftEntryId \/ eff.draftContent # draftContent
              THEN ComputeOtherEntries(entries, eff.draftEntryId, eff.draftContent,
                                       isSavingDraftRef, NoId)
              ELSE otherEntries
  /\ pendingDraftEntryIdRef' = NoId
  /\ blockTimer' = NoTimer
  /\ editorTimer' = NoTimer
  /\ lastEdit' = NoEdit
  /\ owed' = NoEdit
  /\ scen' = "off"
  /\ draftMade' = {}
  /\ UNCHANGED << entries, isSavingRef, isSavingDraftRef, server, nextId, trig >>

ChangeDate(d) == Navigate(d, MaxLoads)

\* the 100 ms timer armed by handleDraftSave after a successful create: it
\* clears the pending ref if the ref still holds the created id
ClearPending ==
  /\ pendingDraftEntryIdRef # NoId
  /\ pendingDraftEntryIdRef' = NoId
  /\ scen' = IF scen = "done" THEN "off" ELSE scen
  /\ UNCHANGED << targetDate, entries, loading, isSavingRef, draftEntryId,
                  draftContent, isSavingDraftRef, otherEntries, blockTimer,
                  editorTimer,
                  inflight, server, nextId, lastEdit, trig, draftMade, owed >>

(***************************************************************************)
(* The API client (client.ts): request with its 401 handling and the       *)
(* single-flight session refresh.  A call is one invocation of             *)
(* apiClient.get/post/... by the application; a refresh is one invocation  *)
(* of authApi.refreshToken by attemptTokenRefresh, which itself goes       *)
(* through request with the refresh endpoint.                              *)
(***************************************************************************)
NumCalls == 3
MaxSends == 3

Calls == 1..NumCalls
NoPromise == 0

\* endpoints as sequences of path segments
EntriesEndpoint == << "latest", "entries" >>
MeEndpoint == << "latest", "auth", "me" >>
RefreshEndpoint == << "latest", "auth", "refresh" >>
CallEndpoints == { EntriesEndpoint, MeEndpoint }

\* HTTP outcomes of one request
Statuses == { 200, 401, 500 }

\* String.prototype.includes on path segments
Includes(path, sub) ==
  \E i \in 1..(Len(path) - Len(sub) + 1) : SubSeq(path, i, i + Len(sub) - 1) = sub

\* isAuthEndpoint with only the identity endpoint excluded
isAuthEndpoint_MeOnly(endpoint) ==
  Includes(endpoint, << "auth", "me" >>)

\* request: const isAuthEndpoint = endpoint.includes('/auth/me') ||
\*                                 endpoint.includes('/auth/refresh')
isAuthEndpoint(endpoint) ==
  \/ Includes(endpoint, << "auth", "me" >>)
  \/ Includes(endpoint, << "auth", "refresh" >>)

\* request: if (response.status === 401 && retryOn401 && !isAuthEndpoint)
ShouldRefresh(endpoint, status, retryOn401) ==
  status = 401 /\ retryOn401 /\ ~isAuthEndpoint(endpoint)

\* what the retry after a successful refresh passes as retryOn401 when the
\* flag is forwarded unchanged
RetryFlag_Forwarded(retryOn401) == retryOn401

\* request: return request<T>(endpoint, options, false)
RetryFlag(retryOn401) == FALSE

VARIABLES
  isRefreshing,
  refreshPromise,     \* NoPromise = null, else the index of a refresh
  calls,              \* the application's calls
  refreshes,          \* the refresh invocations, in the order they started
  \* ---- history (observation only)
  allOutstanding,     \* all calls were outstanding together, to non-auth endpoints
  late401             \* a first-attempt 401 arrived after a refresh had completed

authVars == << isRefreshing, refreshPromise, calls, refreshes, allOutstanding, late401 >>


IdleCall ==
  [endpoint |-> EntriesEndpoint, pc |-> "idle", sends |-> 0, retryOn401 |-> TRUE,
   awaiting |-> NoPromise, first401 |-> FALSE, resumed |-> "no", status |-> 0]

InitAuth ==
  /\ isRefreshing = FALSE
  /\ refreshPromise = NoPromise
  /\ calls = [c \in Calls |-> IdleCall]
  /\ refreshes = <<>>
  /\ allOutstanding = FALSE
  /\ late401 = FALSE

RefreshesInFlight == { p \in 1..Len(refreshes) : refreshes[p].pc \in {"sent", "waiting"} }

RefreshCompleted == \E p \in 1..Len(refreshes) : refreshes[p].pc \in {"ok", "failed"}

\* attemptTokenRefresh that starts a refresh without raising isRefreshing
attemptTokenRefresh_FlagNotSet(refreshing, promise, started, starter) ==
  [isRefreshing |-> FALSE, refreshPromise |-> Len(started) + 1,
   refreshes |-> Append(started, [starter |-> starter, pc |-> "sent",
                                  awaiting |-> NoPromise, status |-> 0]),
   awaited |-> Len(started) + 1]

\* attemptTokenRefresh with the "already refreshing" branch removed
attemptTokenRefresh_NoSharing(refreshing, promise, started, starter) ==
  [isRefreshing |-> TRUE, refreshPromise |-> Len(started) + 1,
   refreshes |-> Append(started, [starter |-> starter, pc |-> "sent",
                                  awaiting |-> NoPromise, status |-> 0]),
   awaited |-> Len(started) + 1]

(***************************************************************************)
(* attemptTokenRefresh up to its await: join the refresh in flight, or     *)
(* set the two module variables and send a refresh request.  awaited is    *)
(* the promise the caller then waits for.                                  *)
(***************************************************************************)
attemptTokenRefresh(refreshing, promise, started, starter) ==
  IF refreshing /\ promise # NoPromise
  THEN [isRefreshing |-> refreshing, refreshPromise |-> promise,
        refreshes |-> started, awaited |-> promise]
  ELSE [isRefreshing |-> TRUE, refreshPromise |-> Len(started) + 1,
        refreshes |-> Append(started, [starter |-> starter, pc |-> "sent",
                                       awaiting |-> NoPromise, status |-> 0]),
        awaited |-> Len(started) + 1]

\* the application calls apiClient with a path: request(endpoint, options)
StartCall(c, endpoint) ==
  /\ calls[c].pc = "idle"
  /\ calls' = [calls EXCEPT ![c] = [@ EXCEPT !.endpoint = endpoint,
                                             !.pc = "sent", !.sends = 1]]
  /\ allOutstanding' =
       \/ allOutstanding
       \/ \A d \in Calls : /\ calls'[d].pc = "sent"
                           /\ calls'[d].sends = 1
                           /\ ~isAuthEndpoint(calls'[d].endpoint)
  /\ UNCHANGED << isRefreshing, refreshPromise, refreshes, late401 >>

(***************************************************************************)
(* The response of a call's request arrives: request returns on 2xx,       *)
(* awaits attemptTokenRefresh on a 401 it may refresh for, and throws the  *)
(* error otherwise.                                                        *)
(***************************************************************************)
CallResponse(c, status) ==
  /\ calls[c].pc = "sent"
  /\ IF status = 200
     THEN /\ calls' = [calls EXCEPT ![c] = [@ EXCEPT !.pc = "ok", !.status = status]]
          /\ UNCHANGED << isRefreshing, refreshPromise, refreshes >>
     ELSE IF ShouldRefresh(calls[c].endpoint, status, calls[c].retryOn401)
     THEN LET a == attemptTokenRefresh(isRefreshing, refreshPromise, refreshes, c)
          IN  /\ isRefreshing' = a.isRefreshing
              /\ refreshPromise' = a.refreshPromise
              /\ refreshes' = a.refreshes
              /\ calls' = [calls EXCEPT ![c] = [@ EXCEPT !.pc = "waiting",
                                                         !.awaiting = a.awaited,
                                                         !.status = status,
                                                         !.first401 = (@ \/ calls[c].sends = 1)]]
     ELSE /\ calls' = [calls EXCEPT ![c] =
                         [@ EXCEPT !.pc = "failed", !.status = status,
                                   !.first401 = (@ \/ (status = 401 /\ calls[c].sends = 1))]]
          /\ UNCHANGED << isRefreshing, refreshPromise, refreshes >>
  /\ late401' = (late401 \/ (status = 401 /\ calls[c].sends = 1 /\ RefreshCompleted))
  /\ UNCHANGED allOutstanding

\* Resume that retries the call whatever the outcome of the refresh
Resume_RetryAlways(call, p, success) ==
  IF call.pc = "waiting" /\ call.awaiting = p
  THEN [call EXCEPT !.pc = "sent", !.sends = @ + 1, !.awaiting = NoPromise,
                    !.retryOn401 = FALSE, !.resumed = "ok"]
  ELSE call

\* a call that awaited promise p continues after the promise settled:
\* retried once on success, failed with its own 401 otherwise
Resume(call, p, success) ==
  IF call.pc = "waiting" /\ call.awaiting = p
  THEN IF success
       THEN [call EXCEPT !.pc = "sent", !.sends = @ + 1, !.awaiting = NoPromise,
                         !.retryOn401 = RetryFlag(@), !.resumed = "ok"]
       ELSE [call EXCEPT !.pc = "failed", !.awaiting = NoPromise,
                         !.resumed = "failed"]
  ELSE call

\* the response of a refresh request without the finally block of
\* attemptTokenRefresh: the two module variables keep their values
RefreshResponse_NoReset(p, status) ==
  /\ p \in 1..Len(refreshes)
  /\ refreshes[p].pc = "sent"
  /\ \A c \in Calls : (calls[c].pc = "waiting" /\ calls[c].awaiting = p /\ status = 200)
                         => calls[c].sends < MaxSends
  /\ refreshes' = [refreshes EXCEPT ![p] =
                     [@ EXCEPT !.pc = IF status = 200 THEN "ok" ELSE "failed",
                               !.status = status]]
  /\ calls' = [c \in Calls |-> Resume(calls[c], p, status = 200)]
  /\ UNCHANGED << isRefreshing, refreshPromise, allOutstanding, late401 >>

(***************************************************************************)
(* The response of a refresh request arrives.  The refresh request runs    *)
(* through request like any other (endpoint /auth/refresh, retryOn401      *)
(* true).  When it settles, attemptTokenRefresh's finally resets the two   *)
(* module variables and every call awaiting the promise continues in the   *)
(* same task.                                                              *)
(***************************************************************************)
RefreshResponse(p, status) ==
  /\ p \in 1..Len(refreshes)
  /\ refreshes[p].pc = "sent"
  /\ \A c \in Calls : (calls[c].pc = "waiting" /\ calls[c].awaiting = p /\ status = 200)
                         => calls[c].sends < MaxSends
  /\ IF ShouldRefresh(RefreshEndpoint, status, TRUE)
     THEN LET a == attemptTokenRefresh(isRefreshing, refreshPromise, refreshes, 0)
          IN  /\ isRefreshing' = a.isRefreshing
              /\ refreshPromise' = a.refreshPromise
              /\ refreshes' = [a.refreshes EXCEPT ![p] =
                                 [@ EXCEPT !.pc = "waiting", !.awaiting = a.awaited,
                                           !.status = status]]
              /\ UNCHANGED calls
     ELSE /\ refreshes' = [refreshes EXCEPT ![p] =
                             [@ EXCEPT !.pc = IF status = 200 THEN "ok" ELSE "failed",
                                       !.status = status]]
          /\ isRefreshing' = FALSE
          /\ refreshPromise' = NoPromise
          /\ calls' = [c \in Calls |-> Resume(calls[c], p, status = 200)]
  /\ UNCHANGED << allOutstanding, late401 >>

(***************************************************************************)
(* The journal API (journal.ts) on top of the API client.  getByDate,      *)
(* createEntry and updateEntry first await getUserId, which is authApi's   *)
(* getMe on /latest/auth/me (an error there makes getMe return null and    *)
(* getUserId throw "User not authenticated"), and then send their own      *)
(* requests; updateEntry looks the entry up with a GET before its PATCH.   *)
(* The backend answers 401 to everything while the access credential is    *)
(* expired; a successful refresh renews it.                                *)
(***************************************************************************)
JournalKinds == { "getByDate", "createEntry", "updateEntry" }

\* the requests one journalApi call sends, in order
Stages(kind) ==
  IF kind = "updateEntry"
  THEN << MeEndpoint, EntriesEndpoint, EntriesEndpoint >>
  ELSE << MeEndpoint, EntriesEndpoint >>

VARIABLES
  jcalls,             \* the engine's journalApi calls
  expired             \* the access credential has expired

gatewayVars == << jcalls, expired >>

IdleJournalCall ==
  [kind |-> "getByDate", stage |-> 0, endpoint |-> MeEndpoint, pc |-> "idle",
   sends |-> 0, retryOn401 |-> TRUE, awaiting |-> NoPromise, first401 |-> FALSE,
   resumed |-> "no", status |-> 0]

InitGateway ==
  /\ jcalls = [c \in Calls |-> IdleJournalCall]
  /\ expired = FALSE

\* what the backend answers to a request other than the refresh
Answer == IF expired THEN 401 ELSE 200

\* the engine calls journalApi: getUserId sends GET /latest/auth/me
JournalCall(c, kind) ==
  /\ jcalls[c].pc = "idle"
  /\ jcalls' = [jcalls EXCEPT ![c] = [@ EXCEPT !.kind = kind, !.stage = 1,
                                               !.endpoint = Stages(kind)[1],
                                               !.pc = "sent", !.sends = 1]]
  /\ UNCHANGED << expired, isRefreshing, refreshPromise, refreshes >>

(***************************************************************************)
(* The answer to the current request of a journalApi call arrives and      *)
(* request handles it: on 2xx the call goes on to its next request or      *)
(* returns; on a 401 it may refresh for it awaits attemptTokenRefresh;     *)
(* any other error ends the call (getMe's catch turns it into null,        *)
(* getUserId throws).                                                      *)
(***************************************************************************)
JournalResponse(c) ==
  LET call == jcalls[c] IN
  /\ call.pc = "sent"
  /\ IF Answer = 200
     THEN /\ jcalls' = [jcalls EXCEPT ![c] =
                IF call.stage < Len(Stages(call.kind))
                THEN [call EXCEPT !.stage = @ + 1,
                                  !.endpoint = Stages(call.kind)[call.stage + 1],
                                  !.sends = 1, !.retryOn401 = TRUE, !.status = 200]
                ELSE [call EXCEPT !.pc = "ok", !.status = 200]]
          /\ UNCHANGED << isRefreshing, refreshPromise, refreshes >>
     ELSE IF ShouldRefresh(call.endpoint, Answer, call.retryOn401)
     THEN LET a == attemptTokenRefresh(isRefreshing, refreshPromise, refreshes, c)
          IN  /\ isRefreshing' = a.isRefreshing
              /\ refreshPromise' = a.refreshPromise
              /\ refreshes' = a.refreshes
              /\ jcalls' = [jcalls EXCEPT ![c] =
                              [call EXCEPT !.pc = "waiting", !.awaiting = a.awaited,
                                           !.status = Answer, !.first401 = TRUE]]
     ELSE /\ jcalls' = [jcalls EXCEPT ![c] =
                          [call EXCEPT !.pc = "failed", !.status = Answer]]
          /\ UNCHANGED << isRefreshing, refreshPromise, refreshes >>
  /\ UNCHANGED expired

\* the answer to a refresh request arrives; a successful refresh renews the
\* credential, and every journalApi call awaiting the promise continues
JournalRefreshResponse(p, ok) ==
  /\ p \in 1..Len(refreshes)
  /\ refreshes[p].pc = "sent"
  /\ ~ShouldRefresh(RefreshEndpoint, IF ok THEN 200 ELSE 401, TRUE)
  /\ refreshes' = [refreshes EXCEPT ![p] =
                     [@ EXCEPT !.pc = IF ok THEN "ok" ELSE "failed",
                               !.status = IF ok THEN 200 ELSE 401]]
  /\ isRefreshing' = FALSE
  /\ refreshPromise' = NoPromise
  /\ expired' = IF ok THEN FALSE ELSE expired
  /\ jcalls' = [c \in Calls |-> Resume(jcalls[c], p, ok)]

\* the access credential runs out
Expire ==
  /\ ~expired
  /\ refreshes = <<>>
  /\ expired' = TRUE
  /\ UNCHANGED << jcalls, isRefreshing, refreshPromise, refreshes >>

(***************************************************************************)
(* Committed entries of the day view: each entry of the collection is      *)
(* rendered as an EntryBlock around a TipTap editor.  The view keeps the   *)
(* local text of every entry (entryContents) and the dirty set             *)
(* (editedEntryIds); the two debounce timers of a unit call the            *)
(* handleEntrySave of the render in which they were armed.                 *)
(***************************************************************************)
NumEntries == 2
MaxRequests == 2

EntryIds == 1..NumEntries

\* the text of the committed entries when the day is loaded
LoadedContent(id) == IF id % 2 = 1 THEN << "a" >> ELSE << "b" >>

VARIABLES
  entryContents,       \* local text per entry id (Empty where the view has none)
  editedEntryIds,      \* the dirty set
  unitBlockTimer,      \* per entry: EntryBlock.saveTimeoutRef
  unitEditorTimer,     \* per entry: TipTapEditor.saveTimeoutRef
  requests             \* update, delete and list requests in flight, in issue order

entryVars ==
  << entryContents, editedEntryIds, unitBlockTimer, unitEditorTimer, requests >>

\* a unit timer: isEdited is editedEntryIds.has(id) in the closure of the
\* handleEntrySave the timer will call
NoUnitTimer == [on |-> FALSE, content |-> Empty, isEdited |-> FALSE]

UnitTimer(content, isEdited) == [on |-> TRUE, content |-> content, isEdited |-> isEdited]

\* the view before any entry is loaded
InitEntryVars ==
  /\ entryContents = [id \in EntryIds |-> Empty]
  /\ editedEntryIds = {}
  /\ unitBlockTimer = [id \in EntryIds |-> NoUnitTimer]
  /\ unitEditorTimer = [id \in EntryIds |-> NoUnitTimer]
  /\ requests = <<>>

HasEntry(ents, id) == \E e \in Range(ents) : e.id = id

ContentOf(ents, id) == (CHOOSE e \in Range(ents) : e.id = id).content

\* sync effect: nextContents[entry.id] = entry.content || ''
ContentsOf(ents) ==
  [id \in EntryIds |-> IF HasEntry(ents, id) THEN ContentOf(ents, id) ELSE Empty]

\* setEntries((prev) => prev.filter((e) => e.id !== id))
RemoveEntry(ents, id) == SelectSeq(ents, LAMBDA e : e.id # id)

\* the otherEntries memo while the draft is empty and idle
ListRows(ents) == ComputeOtherEntries(ents, NoId, Empty, FALSE, NoId)

(***************************************************************************)
(* The day of date 1 is loaded with NumEntries committed entries, nothing  *)
(* typed yet, nothing in flight.                                           *)
(***************************************************************************)
InitLoaded ==
  LET loaded == [id \in EntryIds |-> Entry(id, 1, LoadedContent(id))] IN
  /\ targetDate = 1
  /\ entries = loaded
  /\ loading = FALSE
  /\ isSavingRef = FALSE
  /\ draftEntryId = NoId
  /\ draftContent = Empty
  /\ isSavingDraftRef = FALSE
  /\ pendingDraftEntryIdRef = NoId
  /\ otherEntries = ListRows(loaded)
  /\ blockTimer = NoTimer
  /\ editorTimer = NoTimer
  /\ inflight = {}
  /\ server = Range(loaded)
  /\ nextId = NumEntries + 1
  /\ lastEdit = NoEdit
  /\ trig = "none"
  /\ scen = "off"
  /\ draftMade = {}
  /\ owed = NoEdit
  /\ entryContents = ContentsOf(loaded)
  /\ editedEntryIds = {}
  /\ unitBlockTimer = [id \in EntryIds |-> NoUnitTimer]
  /\ unitEditorTimer = [id \in EntryIds |-> NoUnitTimer]
  /\ requests = <<>>

\* handleEntryChange: the dirty set after the entry's text became content
handleEntryChange(edited, ents, id, content) ==
  IF HasEntry(ents, id)
  THEN IF Trim(content) # Trim(ContentOf(ents, id))
       THEN edited \cup {id}
       ELSE edited \ {id}
  ELSE edited \cup {id}

\* handleEntrySave that issues its request whether or not the entry is dirty
handleEntrySave_AlwaysSaves(reqs, id, content, isEdited) ==
  IF Trim(content) = Empty
  THEN Append(reqs, [kind |-> "delete", id |-> id, content |-> Empty])
  ELSE Append(reqs, [kind |-> "update", id |-> id, content |-> Trim(content)])

(***************************************************************************)
(* handleEntrySave up to its first awaited network call: nothing for an    *)
(* entry its closure does not hold dirty, deleteEntry for empty content,   *)
(* updateEntry otherwise.  (The view's onSave wrapper does not pass        *)
(* writtenAt on, so isEdited is editedEntryIds.has(id).)                   *)
(***************************************************************************)
handleEntrySave(reqs, id, content, isEdited) ==
  IF ~isEdited
  THEN reqs
  ELSE IF Trim(content) = Empty
       THEN Append(reqs, [kind |-> "delete", id |-> id, content |-> Empty])
       ELSE Append(reqs, [kind |-> "update", id |-> id, content |-> Trim(content)])

\* what the actions on committed entries leave alone
draftFrame ==
  << targetDate, isSavingRef, draftEntryId, draftContent, isSavingDraftRef,
     pendingDraftEntryIdRef, blockTimer, editorTimer, inflight, nextId,
     lastEdit, trig, scen, draftMade, owed >>

(***************************************************************************)
(* The user edits a committed entry: TipTap's onUpdate converts the        *)
(* document and, when the text changed, calls EntryBlock.handleChange      *)
(* (which calls handleEntryChange and re-arms the block timer for          *)
(* non-empty text) and then re-arms its own timer.  Both timers close over *)
(* the handlers of the current render.                                     *)
(***************************************************************************)
EntryEdit(id, raw) ==
  LET markdown == htmlToMarkdown(raw)
      isEdited == id \in editedEntryIds
  IN  /\ ~loading
      /\ HasEntry(entries, id)
      /\ markdown # entryContents[id]
      /\ entryContents' = [entryContents EXCEPT ![id] = markdown]
      /\ editedEntryIds' = handleEntryChange(editedEntryIds, entries, id, markdown)
      /\ unitBlockTimer' =
           [unitBlockTimer EXCEPT
              ![id] = IF Trim(markdown) # Empty
                      THEN UnitTimer(markdown, isEdited)
                      ELSE NoUnitTimer]
      /\ unitEditorTimer' = [unitEditorTimer EXCEPT ![id] = UnitTimer(markdown, isEdited)]
      /\ UNCHANGED << requests, entries, server, loading, otherEntries, draftFrame >>

(***************************************************************************)
(* The quiet interval of an entry elapses: the block timer, when pending,  *)
(* calls onSave(content, false); the editor timer, when pending, calls     *)
(* handleSaveNow(markdown), which calls onSave(markdown, true).  Each call *)
(* reaches the handleEntrySave of the render in which its timer was armed. *)
(***************************************************************************)
EntryDebounce(id) ==
  LET b == unitBlockTimer[id]
      e == unitEditorTimer[id]
      afterBlock == IF b.on THEN handleEntrySave(requests, id, b.content, b.isEdited)
                    ELSE requests
      afterEditor == IF e.on THEN handleEntrySave(afterBlock, id, e.content, e.isEdited)
                     ELSE afterBlock
  IN  /\ b.on \/ e.on
      /\ Len(afterEditor) <= MaxRequests
      /\ requests' = afterEditor
      /\ unitBlockTimer' = [unitBlockTimer EXCEPT ![id] = NoUnitTimer]
      /\ unitEditorTimer' = [unitEditorTimer EXCEPT ![id] = NoUnitTimer]
      /\ UNCHANGED << entryContents, editedEntryIds, entries, server, loading,
                      otherEntries, draftFrame >>

(***************************************************************************)
(* Cmd/Ctrl+Enter in an entry's editor: TipTap clears its timer and calls  *)
(* onSaveRef.current(markdown), the handleSaveNow of the latest render,    *)
(* which clears the block timer and calls onSave(markdown, true).          *)
(***************************************************************************)
EntryManualSave(id) ==
  LET saved == handleEntrySave(requests, id, entryContents[id], id \in editedEntryIds)
  IN  /\ ~loading
      /\ HasEntry(entries, id)
      /\ Len(saved) <= MaxRequests
      /\ requests' = saved
      /\ unitBlockTimer' = [unitBlockTimer EXCEPT ![id] = NoUnitTimer]
      /\ unitEditorTimer' = [unitEditorTimer EXCEPT ![id] = NoUnitTimer]
      /\ UNCHANGED << entryContents, editedEntryIds, entries, server, loading,
                      otherEntries, draftFrame >>

(***************************************************************************)
(* The user opens the time input of an entry and confirms it (Enter, or    *)
(* blur): for non-empty text the input calls handleSaveNow(localValue),    *)
(* which clears the block timer only and calls onSave(localValue, true,    *)
(* writtenAt); the view's onSave wrapper drops writtenAt.                  *)
(***************************************************************************)
TimestampSave(id) ==
  LET saved == handleEntrySave(requests, id, entryContents[id], id \in editedEntryIds)
  IN  /\ ~loading
      /\ HasEntry(entries, id)
      /\ Trim(entryContents[id]) # Empty
      /\ Len(saved) <= MaxRequests
      /\ requests' = saved
      /\ unitBlockTimer' = [unitBlockTimer EXCEPT ![id] = NoUnitTimer]
      /\ UNCHANGED << unitEditorTimer, entryContents, editedEntryIds, entries, server,
                      loading, otherEntries, draftFrame >>

\* requests without the i-th
Drop(reqs, i) == SubSeq(reqs, 1, i - 1) \o SubSeq(reqs, i + 1, Len(reqs))

(***************************************************************************)
(* The backend answers an updateEntry: useTodayEntry.updateEntry replaces  *)
(* the entry in the collection, handleEntrySave removes the id from the    *)
(* dirty set, React renders and the sync effect (the collection is a new   *)
(* array) replaces every local text by the collection's and clears the     *)
(* dirty set.                                                              *)
(***************************************************************************)
EntryUpdateResponseOk(i) ==
  LET r == requests[i] IN
  /\ r.kind = "update"
  /\ \E old \in server : old.id = r.id
  /\ LET old == CHOOSE o \in server : o.id = r.id
         updated == Entry(r.id, old.date, r.content)
         ents == ReplaceEntry(entries, updated)
     IN  /\ server' = (server \ {old}) \cup {updated}
         /\ entries' = ents
         /\ otherEntries' = ListRows(ents)
         /\ entryContents' = ContentsOf(ents)
         /\ editedEntryIds' = {}
  /\ requests' = Drop(requests, i)
  /\ UNCHANGED << unitBlockTimer, unitEditorTimer, loading, draftFrame >>

\* handleEntrySave's catch: the failure is logged, the dirty set is kept
SaveFailed_ClearsDirty(edited, id) == edited \ {id}

SaveFailed(edited, id) == edited

(***************************************************************************)
(* An updateEntry or deleteEntry fails (network error, error status, or    *)
(* the entry is gone): useTodayEntry rethrows, handleEntrySave logs.       *)
(***************************************************************************)
EntryRequestFail(i) ==
  LET r == requests[i] IN
  /\ r.kind \in {"update", "delete"}
  /\ requests' = Drop(requests, i)
  /\ editedEntryIds' = SaveFailed(editedEntryIds, r.id)
  /\ UNCHANGED << entryContents, unitBlockTimer, unitEditorTimer, entries, server,
                  loading, otherEntries, draftFrame >>

(***************************************************************************)
(* The backend answers a deleteEntry: useTodayEntry.deleteEntry filters    *)
(* the entry out, handleEntrySave calls refresh(), which sets loading and  *)
(* issues a list request.  The loading view unmounts every EntryBlock, so  *)
(* every pending timer is cleared; the sync effect runs on the filtered    *)
(* collection.                                                             *)
(***************************************************************************)
EntryDeleteResponseOk(i) ==
  LET r == requests[i] IN
  /\ r.kind = "delete"
  /\ \E old \in server : old.id = r.id
  /\ LET ents == RemoveEntry(entries, r.id) IN
     /\ server' = { e \in server : e.id # r.id }
     /\ entries' = ents
     /\ otherEntries' = ListRows(ents)
     /\ entryContents' = ContentsOf(ents)
     /\ editedEntryIds' = {}
  /\ loading' = TRUE
  /\ requests' = Append(Drop(requests, i), [kind |-> "list", id |-> NoId, content |-> Empty])
  /\ unitBlockTimer' = [id \in EntryIds |-> NoUnitTimer]
  /\ unitEditorTimer' = [id \in EntryIds |-> NoUnitTimer]
  /\ UNCHANGED draftFrame

(***************************************************************************)
(* A list request of refresh() is answered: loadEntries stores the day's   *)
(* entries (none on failure) and clears loading; the sync effect runs.     *)
(***************************************************************************)
EntryListResponse(i, ok) ==
  LET r == requests[i]
      ents == IF ok THEN listEntries(targetDate) ELSE <<>>
  IN  /\ r.kind = "list"
      /\ entries' = ents
      /\ otherEntries' = ListRows(ents)
      /\ loading' = FALSE
      /\ entryContents' = ContentsOf(ents)
      /\ editedEntryIds' = {}
      /\ requests' = Drop(requests, i)
      /\ UNCHANGED << unitBlockTimer, unitEditorTimer, server, draftFrame >>

(***************************************************************************)
(* The user opens the time input of an entry, clicks Delete and confirms:  *)
(* EntryBlock.handleDelete calls handleDeleteEntry(id), which awaits       *)
(* deleteEntry(id).  No timer is cleared.                                  *)
(***************************************************************************)
DeleteClick(id) ==
  /\ ~loading
  /\ HasEntry(entries, id)
  /\ Len(requests) < MaxRequests
  /\ requests' = Append(requests, [kind |-> "delete", id |-> id, content |-> Empty])
  /\ UNCHANGED << entryContents, editedEntryIds, unitBlockTimer, unitEditorTimer,
                  entries, server, loading, otherEntries, draftFrame >>

\* another session of the user deletes the entry on the backend
ExternalDelete(id) ==
  /\ \E e \in server : e.id = id
  /\ server' = { e \in server : e.id # id }
  /\ UNCHANGED << entryVars, entries, loading, otherEntries, draftFrame >>

\* what a not-found answer to deleteEntry(id) leaves of the collection:
\* request throws for every non-ok status, useTodayEntry.deleteEntry
\* rethrows before its setEntries
DeleteNotFound(ents, id) == ents

(***************************************************************************)
(* The backend answers a deleteEntry with not-found (the entry is gone).   *)
(* The error passes through useTodayEntry.deleteEntry; handleEntrySave     *)
(* logs it, handleDeleteEntry logs and rethrows it to EntryBlock, which    *)
(* logs it.  refresh() is not reached.                                     *)
(***************************************************************************)
EntryDeleteNotFound(i) ==
  LET r == requests[i] IN
  /\ r.kind = "delete"
  /\ ~\E e \in server : e.id = r.id
  /\ requests' = Drop(requests, i)
  /\ entries' = DeleteNotFound(entries, r.id)
  /\ otherEntries' = ListRows(entries')
  /\ IF entries' # entries
     THEN /\ entryContents' = ContentsOf(entries')
          /\ editedEntryIds' = {}
     ELSE UNCHANGED << entryContents, editedEntryIds >>
  /\ UNCHANGED << unitBlockTimer, unitEditorTimer, server, loading, draftFrame >>

(***************************************************************************)
(* The header's unsaved marker.  hasUnsavedChanges is a memo over six      *)
(* values of the render; memo holds one choice of them and the value the   *)
(* memo computes from it.                                                  *)
(***************************************************************************)
VARIABLES memo

memoVars == << memo >>

MemoIdle ==
  [loading |-> TRUE, hasInitialized |-> FALSE, editedEntryIds |-> {},
   draftEntryId |-> NoId, draftContent |-> Empty, entries |-> <<>>,
   computed |-> FALSE, hasUnsavedChanges |-> FALSE]

\* the collections the memo is computed on
MemoCollections ==
  { <<>>, << Entry(1, 1, << "a" >>) >>,
    << Entry(1, 1, << "a" >>), Entry(2, 1, << "b" >>) >> }

MemoInputs ==
  { [loading |-> l, hasInitialized |-> h, editedEntryIds |-> ed,
     draftEntryId |-> d, draftContent |-> c, entries |-> ents,
     computed |-> FALSE, hasUnsavedChanges |-> FALSE] :
      l \in BOOLEAN, h \in BOOLEAN, ed \in SUBSET EntryIds,
      d \in {NoId} \cup (1..MaxIds), c \in RawInputs, ents \in MemoCollections }

\* the memo without its first guard
hasUnsavedChangesOf_NoLoadGuard(ld, initialized, edited, dId, dContent, ents) ==
  IF edited # {} THEN TRUE
  ELSE IF dId # NoId
       THEN IF HasEntry(ents, dId)
            THEN Trim(dContent) # Trim(ContentOf(ents, dId))
            ELSE FALSE
       ELSE Trim(dContent) # Empty

\* JournalDayView.hasUnsavedChanges as a function of its dependencies
hasUnsavedChangesOf(ld, initialized, edited, dId, dContent, ents) ==
  IF ld \/ ~initialized THEN FALSE
  ELSE IF edited # {} THEN TRUE
  ELSE IF dId # NoId
       THEN IF HasEntry(ents, dId)
            THEN Trim(dContent) # Trim(ContentOf(ents, dId))
            ELSE FALSE
       ELSE Trim(dContent) # Empty

\* a render computes the memo
ComputeMemo ==
  /\ ~memo.computed
  /\ memo' = [memo EXCEPT
                !.computed = TRUE,
                !.hasUnsavedChanges =
                   hasUnsavedChangesOf(memo.loading, memo.hasInitialized,
                                       memo.editedEntryIds, memo.draftEntryId,
                                       memo.draftContent, memo.entries)]

(***************************************************************************)
(* Failure reporting of a save.  An attempt is one invocation of           *)
(* handleEntrySave or handleDraftSave that reached its awaited request;    *)
(* isManualSave is the flag it was called with (true from                  *)
(* EntryBlock.handleSaveNow, false from the block's debounce timer).       *)
(***************************************************************************)
NumAttempts == 3

Attempts == 1..NumAttempts

Handlers == { "handleEntrySave", "handleDraftSave" }

VARIABLES
  attempts,     \* per attempt: [pc, handler, isManualSave]
  errorShown    \* the attempts whose failure the view shows to the user

reportVars == << attempts, errorShown >>

(***************************************************************************)
(* Display order.  Every entry carries writtenAt; the view renders the     *)
(* rows of otherEntries, sorted by writtenAt, and after them the draft     *)
(* block, which shows the entry backing the identified draft.  The backend *)
(* stamps a created entry with its clock; the hook's updateEntry sends     *)
(* content only, so an update returns the entry with writtenAt unchanged.  *)
(***************************************************************************)
MaxTime == 3
MaxOrderIds == 3
MaxRev == 1

Times == 1..MaxTime
OrderIds == 1..MaxOrderIds

VARIABLES ordEntries, ordServer, ordDraftEntryId, ordClock, ordNextId,
          ordRefreshing

orderVars ==
  << ordEntries, ordServer, ordDraftEntryId, ordClock, ordNextId, ordRefreshing >>

OrderIdle ==
  /\ ordEntries = <<>>
  /\ ordServer = {}
  /\ ordDraftEntryId = 0
  /\ ordClock = 1
  /\ ordNextId = 1
  /\ ordRefreshing = FALSE

\* the orders in which a list answer may hold the entries of S
ListOrders(S) ==
  { q \in [1..Cardinality(S) -> S] : Range(q) = S }

\* the day is loaded; the backend holds up to two entries, none written
\* later than its clock
InitOrderVars ==
  /\ ordClock \in Times
  /\ ordServer \in { S \in SUBSET [id : 1..2, writtenAt : Times, rev : {0}] :
                        /\ \A e, f \in S : e.id = f.id => e = f
                        /\ { e.id : e \in S } = 1..Cardinality(S) }
  /\ \A e \in ordServer : e.writtenAt <= ordClock
  /\ ordEntries \in ListOrders(ordServer)
  /\ ordDraftEntryId = 0
  /\ ordNextId = Cardinality(ordServer) + 1
  /\ ordRefreshing = FALSE

RECURSIVE InsertByWrittenAt(_, _)
InsertByWrittenAt(e, q) ==
  IF q = <<>> THEN <<e>>
  ELSE IF Head(q).writtenAt <= e.writtenAt
       THEN <<Head(q)>> \o InsertByWrittenAt(e, Tail(q))
       ELSE <<e>> \o q

RECURSIVE SortByWrittenAt(_)
\* Array.prototype.sort with (a, b) => time(a) - time(b): stable
SortByWrittenAt(q) ==
  IF q = <<>> THEN <<>>
  ELSE InsertByWrittenAt(q[Len(q)], SortByWrittenAt(SubSeq(q, 1, Len(q) - 1)))

OrdOtherEntries ==
  SortByWrittenAt(SelectSeq(ordEntries, LAMBDA e : e.id # ordDraftEntryId))

OrdDraftEntry == SelectSeq(ordEntries, LAMBDA e : e.id = ordDraftEntryId)

\* the persisted entries in the order of the rendered blocks
Rendered == OrdOtherEntries \o OrdDraftEntry

HasOrd(id) == \E e \in Range(ordEntries) : e.id = id

\* the backend clock advances
OrderTick ==
  /\ ordClock < MaxTime
  /\ ordClock' = ordClock + 1
  /\ UNCHANGED << ordEntries, ordServer, ordDraftEntryId, ordNextId, ordRefreshing >>

\* the create of the empty-id draft is answered: the backend has stamped the
\* entry with its clock, createEntry appends it and handleDraftSave adopts it
OrderCreate ==
  /\ ordDraftEntryId = 0
  /\ ordNextId <= MaxOrderIds
  /\ LET saved == [id |-> ordNextId, writtenAt |-> ordClock, rev |-> 0]
     IN  /\ ordServer' = ordServer \union {saved}
         /\ ordEntries' = Append(ordEntries, saved)
         /\ ordDraftEntryId' = saved.id
  /\ ordNextId' = ordNextId + 1
  /\ UNCHANGED << ordClock, ordRefreshing >>

\* another client of the same user creates an entry for the day
OrderExternalCreate ==
  /\ ordNextId <= MaxOrderIds
  /\ ordServer' = ordServer \union
                    {[id |-> ordNextId, writtenAt |-> ordClock, rev |-> 0]}
  /\ ordNextId' = ordNextId + 1
  /\ UNCHANGED << ordEntries, ordDraftEntryId, ordClock, ordRefreshing >>

\* an update of entry id is answered: the entry comes back with new content
\* (rev) and the writtenAt it had
OrderUpdate(id) ==
  /\ \E e \in Range(ordEntries) \intersect ordServer :
       /\ e.id = id
       /\ e.rev < MaxRev
       /\ LET updated == [e EXCEPT !.rev = e.rev + 1]
          IN  /\ ordServer' = (ordServer \ {e}) \union {updated}
              /\ ordEntries' = [i \in 1..Len(ordEntries) |->
                                  IF ordEntries[i].id = id THEN updated
                                  ELSE ordEntries[i]]
  /\ UNCHANGED << ordDraftEntryId, ordClock, ordNextId, ordRefreshing >>

\* a delete of entry id is answered: deleteEntry filters it out, and
\* handleDeleteEntry resets the draft it backed and calls refresh
OrderDelete(id) ==
  /\ HasOrd(id)
  /\ ~ordRefreshing
  /\ ordRefreshing' = TRUE
  /\ ordServer' = { e \in ordServer : e.id # id }
  /\ ordEntries' = SelectSeq(ordEntries, LAMBDA e : e.id # id)
  /\ ordDraftEntryId' = IF ordDraftEntryId = id THEN 0 ELSE ordDraftEntryId
  /\ UNCHANGED << ordClock, ordNextId >>

\* the refresh that follows a delete is answered
OrderRefresh ==
  /\ ordRefreshing
  /\ ordRefreshing' = FALSE
  /\ ordEntries' \in ListOrders(ordServer)
  /\ UNCHANGED << ordServer, ordDraftEntryId, ordClock, ordNextId >>


(***************************************************************************)
(* Metrics completion chain.  Dates are day numbers.  The backend's        *)
(* calendar reports for each day whether its metric set is complete;       *)
(* incomplete is the set of days it reports as incomplete.  The view keeps *)
(* the queue pendingIncompleteDates, the completion prompt and the metrics *)
(* popup.  shouldOpenMetricsPopup is set by the prompt's confirm and reset *)
(* by the date effect of the same render cascade, which arms the 100 ms    *)
(* timer that opens the popup; it is false whenever an action begins.      *)
(* The popup's Save button is disabled while a save is in flight.  After   *)
(* a successful onSave the popup calls the onSaveComplete it was rendered  *)
(* with when Save was clicked, then onClose.  declined records history: it *)
(* is true from a decline of the prompt until the next successful save or  *)
(* the next opening of the prompt.                                         *)
(***************************************************************************)
MaxDay == 8
WindowDays == 7

\* the days in use: the last three days and one more than a week before
\* the last
Days == {1} \union ((MaxDay - 2)..MaxDay)

VARIABLES viewedDate, incomplete, pendingIncompleteDates, isCompletionPromptOpen,
          isMetricsPopupOpen, openPopupTimer, isProcessingMetricsCompletionRef,
          metricsSave, completionCheck, lastSavedDate, declined

chainVars ==
  << viewedDate, incomplete, pendingIncompleteDates, isCompletionPromptOpen,
     isMetricsPopupOpen, openPopupTimer, isProcessingMetricsCompletionRef,
     metricsSave, completionCheck, lastSavedDate, declined >>

NoSave == [on |-> FALSE, date |-> 0, queue |-> <<>>, notify |-> FALSE]
NoCheck == [on |-> FALSE, savedDate |-> 0]

ChainIdle ==
  /\ viewedDate = 1
  /\ incomplete = {}
  /\ pendingIncompleteDates = <<>>
  /\ isCompletionPromptOpen = FALSE
  /\ isMetricsPopupOpen = FALSE
  /\ openPopupTimer = FALSE
  /\ isProcessingMetricsCompletionRef = FALSE
  /\ metricsSave = NoSave
  /\ completionCheck = NoCheck
  /\ lastSavedDate = 0
  /\ declined = FALSE

\* the view has just been opened on some day
InitChainVars ==
  /\ viewedDate \in Days
  /\ incomplete \in SUBSET Days
  /\ pendingIncompleteDates = <<>>
  /\ isCompletionPromptOpen = FALSE
  /\ isMetricsPopupOpen = FALSE
  /\ openPopupTimer = FALSE
  /\ isProcessingMetricsCompletionRef = FALSE
  /\ metricsSave = NoSave
  /\ completionCheck = NoCheck
  /\ lastSavedDate = 0
  /\ declined = FALSE

\* the last `days` calendar days ending at date
getDateRange(date, days) == { d \in Days : date - (days - 1) <= d /\ d <= date }

RECURSIVE MostRecentFirst(_)
\* sort by date, most recent first
MostRecentFirst(S) ==
  IF S = {} THEN <<>>
  ELSE LET m == CHOOSE d \in S : \A e \in S : e <= d
       IN  <<m>> \o MostRecentFirst(S \ {m})

RECURSIVE AsFound(_)
\* the calendar's own (ascending) order, left unsorted
AsFound(S) ==
  IF S = {} THEN <<>>
  ELSE LET m == CHOOSE d \in S : \A e \in S : d <= e
       IN  <<m>> \o AsFound(S \ {m})

getDatesWithIncompleteMetrics_Unsorted(range) == AsFound(range \intersect incomplete)

getDatesWithIncompleteMetrics(range) == MostRecentFirst(range \intersect incomplete)

\* the user clicks the metrics icon; the prompt's backdrop covers it
MetricsIconClick ==
  /\ ~isMetricsPopupOpen
  /\ ~isCompletionPromptOpen
  /\ isMetricsPopupOpen' = TRUE
  /\ UNCHANGED << viewedDate, incomplete, pendingIncompleteDates,
                  isCompletionPromptOpen, openPopupTimer,
                  isProcessingMetricsCompletionRef, metricsSave, completionCheck, lastSavedDate,
                  declined >>

\* the user clicks Save in the popup: handleSave awaits the handleMetricsSave
\* of this render, which awaits saveMetrics
MetricsSaveClick ==
  /\ isMetricsPopupOpen
  /\ ~metricsSave.on
  /\ metricsSave' = [on |-> TRUE, date |-> viewedDate,
                     queue |-> pendingIncompleteDates,
                     notify |-> pendingIncompleteDates = <<>>]
  /\ UNCHANGED << viewedDate, incomplete, pendingIncompleteDates,
                  isCompletionPromptOpen, isMetricsPopupOpen, openPopupTimer,
                  isProcessingMetricsCompletionRef, completionCheck, lastSavedDate,
                  declined >>

\* handleMetricsSaveComplete up to its await
handleMetricsSaveComplete(savedDate) ==
  IF isProcessingMetricsCompletionRef
  THEN UNCHANGED << isProcessingMetricsCompletionRef, completionCheck, lastSavedDate >>
  ELSE /\ isProcessingMetricsCompletionRef' = TRUE
       /\ lastSavedDate' = savedDate
       /\ completionCheck' = [on |-> TRUE, savedDate |-> savedDate]

\* the save is answered; complete tells whether the saved set is complete
MetricsSaveOk(complete) ==
  LET c == metricsSave
      chained == c.queue # <<>> /\ Head(c.queue) = c.date
  IN  /\ c.on
      /\ metricsSave' = NoSave
      /\ incomplete' = IF complete THEN incomplete \ {c.date}
                       ELSE incomplete \union {c.date}
      /\ pendingIncompleteDates' = IF chained THEN Tail(c.queue)
                                   ELSE pendingIncompleteDates
      /\ isCompletionPromptOpen' = IF chained /\ Tail(c.queue) # <<>> THEN TRUE
                                   ELSE isCompletionPromptOpen
      /\ IF c.notify THEN handleMetricsSaveComplete(c.date)
         ELSE UNCHANGED << isProcessingMetricsCompletionRef, completionCheck, lastSavedDate >>
      /\ isMetricsPopupOpen' = FALSE
      /\ declined' = FALSE
      /\ UNCHANGED << viewedDate, openPopupTimer >>

\* the save is rejected: handleSave logs and the popup stays as it is
MetricsSaveFail ==
  /\ metricsSave.on
  /\ metricsSave' = NoSave
  /\ UNCHANGED << viewedDate, incomplete, pendingIncompleteDates,
                  isCompletionPromptOpen, isMetricsPopupOpen, openPopupTimer,
                  isProcessingMetricsCompletionRef, completionCheck, lastSavedDate,
                  declined >>

\* the queue a completion check for savedDate computes
otherIncompleteDates(savedDate) ==
  SelectSeq(getDatesWithIncompleteMetrics(getDateRange(savedDate, WindowDays)),
            LAMBDA d : d # savedDate)

\* the calendar range of a completion check is answered
CompletionCheckOk ==
  LET other == otherIncompleteDates(completionCheck.savedDate)
  IN  /\ completionCheck.on
      /\ completionCheck' = NoCheck
      /\ isProcessingMetricsCompletionRef' = FALSE
      /\ IF other # <<>>
         THEN /\ pendingIncompleteDates' = other
              /\ isCompletionPromptOpen' = TRUE
              /\ declined' = FALSE
         ELSE UNCHANGED << pendingIncompleteDates, isCompletionPromptOpen, declined >>
      /\ UNCHANGED << viewedDate, incomplete, isMetricsPopupOpen, openPopupTimer,
                      metricsSave, lastSavedDate >>

\* the calendar range request fails: logged, the flag is released
CompletionCheckFail ==
  /\ completionCheck.on
  /\ completionCheck' = NoCheck
  /\ isProcessingMetricsCompletionRef' = FALSE
  /\ UNCHANGED << viewedDate, incomplete, pendingIncompleteDates,
                  isCompletionPromptOpen, isMetricsPopupOpen, openPopupTimer,
                  metricsSave, lastSavedDate,
                  declined >>

\* the user confirms the prompt: navigate to the head date; the date effect
\* arms the timer that opens the popup
handleCompletionPromptConfirm ==
  /\ isCompletionPromptOpen
  /\ isCompletionPromptOpen' = FALSE
  /\ IF pendingIncompleteDates # <<>>
     THEN /\ viewedDate' = Head(pendingIncompleteDates)
          /\ openPopupTimer' = TRUE
     ELSE UNCHANGED << viewedDate, openPopupTimer >>
  /\ UNCHANGED << incomplete, pendingIncompleteDates, isMetricsPopupOpen,
                  isProcessingMetricsCompletionRef, metricsSave, completionCheck, lastSavedDate,
                  declined >>

\* the 100 ms timer armed by the date effect
OpenPopupTimerFires ==
  /\ openPopupTimer
  /\ openPopupTimer' = FALSE
  /\ isMetricsPopupOpen' = TRUE
  /\ UNCHANGED << viewedDate, incomplete, pendingIncompleteDates,
                  isCompletionPromptOpen, isProcessingMetricsCompletionRef,
                  metricsSave, completionCheck, lastSavedDate,
                  declined >>

\* the user declines the prompt (button, Escape or a click outside)
handleCompletionPromptClose ==
  /\ isCompletionPromptOpen
  /\ isCompletionPromptOpen' = FALSE
  /\ pendingIncompleteDates' = <<>>
  /\ declined' = TRUE
  /\ UNCHANGED << viewedDate, incomplete, isMetricsPopupOpen, openPopupTimer,
                  isProcessingMetricsCompletionRef, metricsSave, completionCheck, lastSavedDate >>

\* the user closes the popup without saving (Escape or a click outside)
MetricsPopupClose ==
  /\ isMetricsPopupOpen
  /\ isMetricsPopupOpen' = FALSE
  /\ UNCHANGED << viewedDate, incomplete, pendingIncompleteDates,
                  isCompletionPromptOpen, openPopupTimer,
                  isProcessingMetricsCompletionRef, metricsSave, completionCheck, lastSavedDate,
                  declined >>

\* the user goes to another day while neither dialog is open
GoToDay(d) ==
  /\ d # viewedDate
  /\ ~isMetricsPopupOpen
  /\ ~isCompletionPromptOpen
  /\ viewedDate' = d
  /\ UNCHANGED << incomplete, pendingIncompleteDates, isCompletionPromptOpen,
                  isMetricsPopupOpen, openPopupTimer,
                  isProcessingMetricsCompletionRef, metricsSave, completionCheck, lastSavedDate,
                  declined >>

(***************************************************************************)
(* Typing aggregation.  Every editor reports through handleTypingChange    *)
(* whether it is receiving keystrokes; the view folds the reports into one *)
(* boolean and hides the metrics button while it is true.  typingLog is a  *)
(* history variable: the calls made so far, oldest first.                  *)
(***************************************************************************)
MaxTypingCalls == 4

TypingUnits == {"draft", "e1", "e2"}

VARIABLES typingEditorsRef, isTyping, typingLog

typingVars == << typingEditorsRef, isTyping, typingLog >>

TypingIdle ==
  /\ typingEditorsRef = {}
  /\ isTyping = FALSE
  /\ typingLog = << >>

\* a fold that keeps only the flag of the last call
handleTypingChange_LastCallOnly(entryId, isTypingNow) ==
  /\ Len(typingLog) < MaxTypingCalls
  /\ typingEditorsRef' = IF isTypingNow THEN typingEditorsRef \union {entryId}
                                        ELSE typingEditorsRef \ {entryId}
  /\ isTyping' = isTypingNow
  /\ typingLog' = Append(typingLog, [unit |-> entryId, flag |-> isTypingNow])

handleTypingChange(entryId, isTypingNow) ==
  /\ Len(typingLog) < MaxTypingCalls
  /\ typingEditorsRef' = IF isTypingNow THEN typingEditorsRef \union {entryId}
                                        ELSE typingEditorsRef \ {entryId}
  /\ isTyping' = (typingEditorsRef' # {})
  /\ typingLog' = Append(typingLog, [unit |-> entryId, flag |-> isTypingNow])

\* the render shows the metrics button unless isTyping
MetricsIconButtonShown == ~isTyping

(***************************************************************************)
(* The Entry Collection Store on its own (useTodayEntry): requests are     *)
(* committed by the backend when they are sent, their answers travel       *)
(* independently and are applied in any order.  A list answer carries the  *)
(* backend's entries at the time the request was served.                   *)
(***************************************************************************)
MaxStoreIds == 2
MaxAnswers == 2

StoreIds == 1..MaxStoreIds
StoreTexts == { <<"a">>, <<"b">> }

VARIABLES
  storeEntries,     \* the collection, a sequence of entries
  storeServer,      \* the backend's entries of the day
  storeAnswers,     \* answers in flight
  storeNextId,
  storeSaving,      \* createEntry's isSavingRef
  storeSkipped      \* history: a create answer found its id already present

storeVars ==
  << storeEntries, storeServer, storeAnswers, storeNextId, storeSaving, storeSkipped >>

StoreIdle ==
  /\ storeEntries = <<>>
  /\ storeServer = {}
  /\ storeAnswers = {}
  /\ storeNextId = 1
  /\ storeSaving = FALSE
  /\ storeSkipped = FALSE

StoreAnswer(kind, entry, list) == [kind |-> kind, entry |-> entry, list |-> list]

NoEntry == Entry(NoId, 1, Empty)

\* createEntry up to its awaited request
StoreCreateRequest(content) ==
  /\ ~storeSaving
  /\ storeNextId <= MaxStoreIds
  /\ Cardinality(storeAnswers) < MaxAnswers
  /\ LET saved == Entry(storeNextId, 1, content)
     IN  /\ storeServer' = storeServer \cup {saved}
         /\ storeAnswers' = storeAnswers \cup { StoreAnswer("create", saved, <<>>) }
  /\ storeNextId' = storeNextId + 1
  /\ storeSaving' = TRUE
  /\ UNCHANGED << storeEntries, storeSkipped >>

\* createEntry after the await: append unless present; on failure nothing;
\* finally the flag is released
StoreCreateAnswer(a, ok) ==
  /\ a \in storeAnswers
  /\ a.kind = "create"
  /\ storeEntries' = IF ok THEN AppendEntry(storeEntries, a.entry) ELSE storeEntries
  /\ storeSkipped' = (storeSkipped \/ (ok /\ HasEntry(storeEntries, a.entry.id)))
  /\ storeAnswers' = storeAnswers \ {a}
  /\ storeSaving' = FALSE
  /\ UNCHANGED << storeServer, storeNextId >>

\* updateEntry up to its awaited request, for an entry of the collection
StoreUpdateRequest(id, content) ==
  /\ HasEntry(storeEntries, id)
  /\ \E old \in storeServer : old.id = id /\ old.content # content
  /\ Cardinality(storeAnswers) < MaxAnswers
  /\ LET updated == Entry(id, 1, content)
     IN  /\ storeServer' = { e \in storeServer : e.id # id } \cup {updated}
         /\ storeAnswers' = storeAnswers \cup { StoreAnswer("update", updated, <<>>) }
  /\ UNCHANGED << storeEntries, storeNextId, storeSaving, storeSkipped >>

\* updateEntry after the await: the entry of that id is replaced
StoreUpdateAnswer(a) ==
  /\ a \in storeAnswers
  /\ a.kind = "update"
  /\ storeEntries' = ReplaceEntry(storeEntries, a.entry)
  /\ storeAnswers' = storeAnswers \ {a}
  /\ UNCHANGED << storeServer, storeNextId, storeSaving, storeSkipped >>

\* deleteEntry up to its awaited request
StoreDeleteRequest(id) ==
  /\ HasEntry(storeEntries, id)
  /\ \E old \in storeServer : old.id = id
  /\ Cardinality(storeAnswers) < MaxAnswers
  /\ storeServer' = { e \in storeServer : e.id # id }
  /\ storeAnswers' = storeAnswers \cup { StoreAnswer("delete", Entry(id, 1, Empty), <<>>) }
  /\ UNCHANGED << storeEntries, storeNextId, storeSaving, storeSkipped >>

\* deleteEntry after the await: the entry of that id is filtered out
StoreDeleteAnswer(a) ==
  /\ a \in storeAnswers
  /\ a.kind = "delete"
  /\ storeEntries' = RemoveEntry(storeEntries, a.entry.id)
  /\ storeAnswers' = storeAnswers \ {a}
  /\ UNCHANGED << storeServer, storeNextId, storeSaving, storeSkipped >>

\* loadEntries up to its awaited request; the answer lists each entry once
StoreListRequest ==
  /\ Cardinality(storeAnswers) < MaxAnswers
  /\ storeAnswers' = storeAnswers \cup { StoreAnswer("list", NoEntry, SeqOfSet(storeServer)) }
  /\ UNCHANGED << storeEntries, storeServer, storeNextId, storeSaving, storeSkipped >>

\* loadEntries after the await: the collection becomes the answer, or empty
\* when the request failed
StoreListAnswer(a, ok) ==
  /\ a \in storeAnswers
  /\ a.kind = "list"
  /\ storeEntries' = IF ok THEN a.list ELSE <<>>
  /\ storeAnswers' = storeAnswers \ {a}
  /\ UNCHANGED << storeServer, storeNextId, storeSaving, storeSkipped >>

(***************************************************************************)
(* Deleting a list row while the draft is in use.  handleDeleteEntry       *)
(* awaits deleteEntry, which filters the row out of the collection, and    *)
(* then calls refresh(): loading is set, a list request goes out, and the  *)
(* loading view unmounts every editor.  The click itself changes nothing   *)
(* in the view, so the action is the arrival of the delete's answer.  The  *)
(* closure's draftEntryId differs from the row's id, so the draft is not   *)
(* cleared by the handler; the sync effect runs on the filtered            *)
(* collection.                                                             *)
(***************************************************************************)
RowDeleteResponseOk(id) ==
  /\ ~loading
  /\ HasEntry(entries, id)
  /\ id # draftEntryId
  /\ id # pendingDraftEntryIdRef
  /\ \E e \in server : e.id = id
  /\ LoadsInFlight < MaxLoads
  /\ LET ents1 == RemoveEntry(entries, id)
         eff   == SyncEffect(ents1, draftEntryId, draftEntryId, draftContent,
                             isSavingDraftRef)
     IN  /\ entries' = ents1
         /\ draftEntryId' = eff.draftEntryId
         /\ draftContent' = eff.draftContent
         /\ otherEntries' = ComputeOtherEntries(ents1, eff.draftEntryId,
                                eff.draftContent, isSavingDraftRef,
                                pendingDraftEntryIdRef)
         /\ draftMade' = IF eff.draftEntryId = NoId THEN {} ELSE draftMade
  /\ server' = { e \in server : e.id # id }
  /\ loading' = TRUE
  /\ inflight' = loadEntries(inflight, targetDate)
  /\ blockTimer' = NoTimer
  /\ editorTimer' = NoTimer
  /\ scen' = "off"
  /\ UNCHANGED << targetDate, isSavingRef, isSavingDraftRef,
                  pendingDraftEntryIdRef, nextId, lastEdit, trig, owed >>

\* another client deletes the draft's entry on the backend
DraftEntryDeletedElsewhere ==
  /\ draftEntryId # NoId
  /\ \E e \in server : e.id = draftEntryId
  /\ server' = { e \in server : e.id # draftEntryId }
  /\ UNCHANGED << targetDate, entries, loading, isSavingRef, draftEntryId,
                  draftContent, isSavingDraftRef, pendingDraftEntryIdRef,
                  otherEntries, blockTimer, editorTimer, inflight, nextId,
                  lastEdit, trig, scen, draftMade, owed >>

(***************************************************************************)
(* History of the draft's failed saves (observation only): "failed" after  *)
(* a create or update of the draft failed, "reissued" once a later trigger *)
(* has sent a new request.                                                 *)
(***************************************************************************)
VARIABLES afterFailure

retryVars == << afterFailure >>

RetryIdle == afterFailure = "none"

\* the step sent a create or update
IssuesSave == \E r \in inflight' \ inflight : r.kind \in {"create", "update"}

ReissueAfter ==
  afterFailure' = IF afterFailure = "failed" /\ IssuesSave
                  THEN "reissued" ELSE afterFailure

restVars == << memoVars, reportVars, orderVars, chainVars, typingVars, retryVars, storeVars >>

IdleAttempt == [pc |-> "idle", handler |-> "handleEntrySave", isManualSave |-> FALSE]

InitReport ==
  /\ attempts = [a \in Attempts |-> IdleAttempt]
  /\ errorShown = {}

InitRest == memo = MemoIdle /\ InitReport /\ OrderIdle /\ ChainIdle /\ TypingIdle /\ RetryIdle /\ StoreIdle

\* a save handler is called and awaits its create or update request
SaveTrigger(a, handler, isManualSave) ==
  /\ attempts[a].pc = "idle"
  /\ attempts' = [attempts EXCEPT
                    ![a] = [pc |-> "awaiting", handler |-> handler,
                            isManualSave |-> isManualSave]]
  /\ UNCHANGED errorShown

\* the request succeeds
SaveAccepted(a) ==
  /\ attempts[a].pc = "awaiting"
  /\ attempts' = [attempts EXCEPT ![a].pc = "saved"]
  /\ UNCHANGED errorShown

\* the catch block of either handler: console.error('Failed to save entry',
\* error) whatever _isManualSave is; nothing is shown and nothing rethrown
Surfaced(handler, isManualSave) == FALSE

(***************************************************************************)
(* The gateway rejects the request: useTodayEntry logs and rethrows, the   *)
(* handler's catch block runs.                                             *)
(***************************************************************************)
SaveRejected(a) ==
  /\ attempts[a].pc = "awaiting"
  /\ attempts' = [attempts EXCEPT ![a].pc = "logged"]
  /\ errorShown' = IF Surfaced(attempts[a].handler, attempts[a].isManualSave)
                   THEN errorShown \cup {a}
                   ELSE errorShown

vars == << syncVars, authVars, gatewayVars, entryVars, restVars >>

Init == InitSync /\ InitAuth /\ InitGateway /\ InitEntryVars /\ InitRest

Next ==
  \/ (\E raw \in RawInputs : DraftEdit(raw)) /\ UNCHANGED << authVars, gatewayVars, entryVars, restVars >>
  \/ DraftDebounce /\ UNCHANGED << authVars, gatewayVars, entryVars, restVars >>
  \/ DraftManualSave /\ UNCHANGED << authVars, gatewayVars, entryVars, restVars >>
  \/ (\E r \in inflight : CreateResponseOk(r)) /\ UNCHANGED << authVars, gatewayVars, entryVars, restVars >>
  \/ (\E r \in inflight : UpdateResponseOk(r)) /\ UNCHANGED << authVars, gatewayVars, entryVars, restVars >>
  \/ (\E r \in inflight : SaveResponseFail(r)) /\ UNCHANGED << authVars, gatewayVars, entryVars, restVars >>
  \/ (\E r \in inflight, ok \in BOOLEAN : ListResponse(r, ok)) /\ UNCHANGED << authVars, gatewayVars, entryVars, restVars >>
  \/ (\E d \in Dates : ChangeDate(d)) /\ UNCHANGED << authVars, gatewayVars, entryVars, restVars >>
  \/ ClearPending /\ UNCHANGED << authVars, gatewayVars, entryVars, restVars >>

\* the view and its saves
Spec == Init /\ [][Next]_vars

NextAuth ==
  \/ (\E c \in Calls, e \in CallEndpoints : StartCall(c, e)) /\ UNCHANGED << syncVars, gatewayVars, entryVars, restVars >>
  \/ (\E c \in Calls, status \in Statuses : CallResponse(c, status)) /\ UNCHANGED << syncVars, gatewayVars, entryVars, restVars >>
  \/ (\E p \in 1..Len(refreshes), status \in Statuses : RefreshResponse(p, status))
       /\ UNCHANGED << syncVars, gatewayVars, entryVars, restVars >>

\* the API client and its session refresh
SpecAuth == Init /\ [][NextAuth]_vars

NextGateway ==
  \/ (\E c \in Calls, kind \in JournalKinds : JournalCall(c, kind))
       /\ UNCHANGED << syncVars, entryVars, restVars, calls, allOutstanding, late401 >>
  \/ (\E c \in Calls : JournalResponse(c))
       /\ UNCHANGED << syncVars, entryVars, restVars, calls, allOutstanding, late401 >>
  \/ (\E p \in 1..Len(refreshes), ok \in BOOLEAN : JournalRefreshResponse(p, ok))
       /\ UNCHANGED << syncVars, entryVars, restVars, calls, allOutstanding, late401 >>
  \/ Expire /\ UNCHANGED << syncVars, entryVars, restVars, calls, allOutstanding, late401 >>

\* the journal API under an expiring credential
SpecGateway == Init /\ [][NextGateway]_vars

NextEntry ==
  \/ (\E id \in EntryIds, raw \in RawInputs : EntryEdit(id, raw)) /\ UNCHANGED << authVars, gatewayVars, restVars >>
  \/ (\E id \in EntryIds : EntryDebounce(id)) /\ UNCHANGED << authVars, gatewayVars, restVars >>
  \/ (\E id \in EntryIds : EntryManualSave(id)) /\ UNCHANGED << authVars, gatewayVars, restVars >>
  \/ (\E id \in EntryIds : TimestampSave(id)) /\ UNCHANGED << authVars, gatewayVars, restVars >>
  \/ (\E i \in 1..Len(requests) : EntryUpdateResponseOk(i)) /\ UNCHANGED << authVars, gatewayVars, restVars >>
  \/ (\E i \in 1..Len(requests) : EntryRequestFail(i)) /\ UNCHANGED << authVars, gatewayVars, restVars >>
  \/ (\E i \in 1..Len(requests) : EntryDeleteResponseOk(i)) /\ UNCHANGED << authVars, gatewayVars, restVars >>
  \/ (\E i \in 1..Len(requests), ok \in BOOLEAN : EntryListResponse(i, ok))
       /\ UNCHANGED << authVars, gatewayVars, restVars >>

InitEntry == InitLoaded /\ InitAuth /\ InitGateway /\ InitRest

SpecEntry == InitEntry /\ [][NextEntry]_vars

NextEntryDelete ==
  \/ (\E i \in 1..Len(requests) : EntryDeleteNotFound(i))
       /\ UNCHANGED << authVars, gatewayVars, restVars >>
  \/ (\E id \in EntryIds : DeleteClick(id)) /\ UNCHANGED << authVars, gatewayVars, restVars >>
  \/ (\E id \in EntryIds : ExternalDelete(id)) /\ UNCHANGED << authVars, gatewayVars, restVars >>
  \/ NextEntry

SpecEntryDelete == InitEntry /\ [][NextEntryDelete]_vars

InitMemo ==
  InitSync /\ InitAuth /\ InitGateway /\ InitEntryVars /\ memo \in MemoInputs
    /\ InitReport /\ OrderIdle /\ ChainIdle /\ TypingIdle /\ RetryIdle /\ StoreIdle

NextMemo ==
  ComputeMemo /\ UNCHANGED << syncVars, authVars, gatewayVars, entryVars, reportVars, orderVars, chainVars, typingVars, retryVars, storeVars >>

SpecMemo == InitMemo /\ [][NextMemo]_vars

(***************************************************************************)
(* Quick navigation: the date changes while earlier loads are still in     *)
(* flight, up to MaxQuickLoads of them, and the answers arrive in any      *)
(* order.  The backend holds an entry for date 1.                          *)
(***************************************************************************)
MaxQuickLoads == 3

InitLoad == Init /\ server # {}

NextLoad ==
  \/ (\E d \in Dates : Navigate(d, MaxQuickLoads))
       /\ UNCHANGED << authVars, gatewayVars, entryVars, restVars >>
  \/ (\E r \in inflight, ok \in BOOLEAN : ListResponse(r, ok))
       /\ UNCHANGED << authVars, gatewayVars, entryVars, restVars >>

SpecLoad == InitLoad /\ [][NextLoad]_vars

otherThanReport == << syncVars, authVars, gatewayVars, entryVars, memoVars, orderVars, chainVars, typingVars, retryVars, storeVars >>

NextReport ==
  \/ (\E a \in Attempts, h \in Handlers, isManualSave \in BOOLEAN :
        SaveTrigger(a, h, isManualSave)) /\ UNCHANGED otherThanReport
  \/ (\E a \in Attempts : SaveAccepted(a)) /\ UNCHANGED otherThanReport
  \/ (\E a \in Attempts : SaveRejected(a)) /\ UNCHANGED otherThanReport

SpecReport == Init /\ [][NextReport]_vars

InitOrder ==
  /\ InitSync /\ InitAuth /\ InitGateway /\ InitEntryVars
  /\ memo = MemoIdle /\ InitReport /\ ChainIdle /\ TypingIdle /\ RetryIdle /\ StoreIdle
  /\ InitOrderVars

otherThanOrder == << syncVars, authVars, gatewayVars, entryVars, memoVars, reportVars, chainVars, typingVars, retryVars, storeVars >>

NextOrder ==
  \/ OrderTick /\ UNCHANGED otherThanOrder
  \/ OrderCreate /\ UNCHANGED otherThanOrder
  \/ (\E id \in OrderIds : OrderUpdate(id)) /\ UNCHANGED otherThanOrder
  \/ (\E id \in OrderIds : OrderDelete(id)) /\ UNCHANGED otherThanOrder
  \/ OrderRefresh /\ UNCHANGED otherThanOrder
  \/ OrderExternalCreate /\ UNCHANGED otherThanOrder

SpecOrder == InitOrder /\ [][NextOrder]_vars

InitChain ==
  /\ InitSync /\ InitAuth /\ InitGateway /\ InitEntryVars
  /\ memo = MemoIdle /\ InitReport /\ OrderIdle /\ TypingIdle /\ RetryIdle /\ StoreIdle
  /\ InitChainVars

otherThanChain ==
  << syncVars, authVars, gatewayVars, entryVars, memoVars, reportVars, orderVars, typingVars, retryVars, storeVars >>

NextChain ==
  \/ MetricsIconClick /\ UNCHANGED otherThanChain
  \/ MetricsSaveClick /\ UNCHANGED otherThanChain
  \/ (\E complete \in BOOLEAN : MetricsSaveOk(complete)) /\ UNCHANGED otherThanChain
  \/ MetricsSaveFail /\ UNCHANGED otherThanChain
  \/ CompletionCheckOk /\ UNCHANGED otherThanChain
  \/ CompletionCheckFail /\ UNCHANGED otherThanChain
  \/ handleCompletionPromptConfirm /\ UNCHANGED otherThanChain
  \/ OpenPopupTimerFires /\ UNCHANGED otherThanChain
  \/ handleCompletionPromptClose /\ UNCHANGED otherThanChain
  \/ MetricsPopupClose /\ UNCHANGED otherThanChain
  \/ (\E d \in Days : GoToDay(d)) /\ UNCHANGED otherThanChain

SpecChain == InitChain /\ [][NextChain]_vars

otherThanTyping ==
  << syncVars, authVars, gatewayVars, entryVars, memoVars, reportVars, orderVars, chainVars, retryVars, storeVars >>

otherThanSync ==
  << authVars, gatewayVars, entryVars, memoVars, reportVars, orderVars, chainVars,
     typingVars, storeVars >>

\* the view and its saves, with the history of failed saves
NextRetry ==
  \/ (\E raw \in RawInputs : DraftEdit(raw)) /\ ReissueAfter /\ UNCHANGED otherThanSync
  \/ DraftDebounce /\ ReissueAfter /\ UNCHANGED otherThanSync
  \/ DraftManualSave /\ ReissueAfter /\ UNCHANGED otherThanSync
  \/ (\E r \in inflight : CreateResponseOk(r)) /\ ReissueAfter /\ UNCHANGED otherThanSync
  \/ (\E r \in inflight : UpdateResponseOk(r)) /\ ReissueAfter /\ UNCHANGED otherThanSync
  \/ (\E r \in inflight : SaveResponseFail(r)) /\ afterFailure' = "failed" /\ UNCHANGED otherThanSync
  \/ (\E r \in inflight, ok \in BOOLEAN : ListResponse(r, ok)) /\ ReissueAfter /\ UNCHANGED otherThanSync
  \/ (\E d \in Dates : ChangeDate(d)) /\ afterFailure' = "none" /\ UNCHANGED otherThanSync
  \/ ClearPending /\ ReissueAfter /\ UNCHANGED otherThanSync

SpecRetry == Init /\ [][NextRetry]_vars

otherThanSyncAll == << authVars, gatewayVars, entryVars, restVars >>

\* the view and its saves, with deletes of list rows and their refresh
NextRefresh ==
  \/ (\E raw \in RawInputs : DraftEdit(raw)) /\ UNCHANGED otherThanSyncAll
  \/ DraftDebounce /\ UNCHANGED otherThanSyncAll
  \/ DraftManualSave /\ UNCHANGED otherThanSyncAll
  \/ (\E r \in inflight : CreateResponseOk(r)) /\ UNCHANGED otherThanSyncAll
  \/ (\E r \in inflight : UpdateResponseOk(r)) /\ UNCHANGED otherThanSyncAll
  \/ (\E r \in inflight : SaveResponseFail(r)) /\ UNCHANGED otherThanSyncAll
  \/ (\E r \in inflight, ok \in BOOLEAN : ListResponse(r, ok)) /\ UNCHANGED otherThanSyncAll
  \/ (\E d \in Dates : ChangeDate(d)) /\ UNCHANGED otherThanSyncAll
  \/ ClearPending /\ UNCHANGED otherThanSyncAll
  \/ (\E id \in 1..MaxIds : RowDeleteResponseOk(id)) /\ UNCHANGED otherThanSyncAll
  \/ DraftEntryDeletedElsewhere /\ UNCHANGED otherThanSyncAll

SpecRefresh == Init /\ [][NextRefresh]_vars

otherThanStore ==
  << syncVars, authVars, gatewayVars, entryVars, memoVars, reportVars, orderVars,
     chainVars, typingVars, retryVars >>

NextStore ==
  \/ (\E t \in StoreTexts : StoreCreateRequest(t)) /\ UNCHANGED otherThanStore
  \/ (\E a \in storeAnswers, ok \in BOOLEAN : StoreCreateAnswer(a, ok)) /\ UNCHANGED otherThanStore
  \/ (\E id \in StoreIds, t \in StoreTexts : StoreUpdateRequest(id, t)) /\ UNCHANGED otherThanStore
  \/ (\E a \in storeAnswers : StoreUpdateAnswer(a)) /\ UNCHANGED otherThanStore
  \/ (\E id \in StoreIds : StoreDeleteRequest(id)) /\ UNCHANGED otherThanStore
  \/ (\E a \in storeAnswers : StoreDeleteAnswer(a)) /\ UNCHANGED otherThanStore
  \/ StoreListRequest /\ UNCHANGED otherThanStore
  \/ (\E a \in storeAnswers, ok \in BOOLEAN : StoreListAnswer(a, ok)) /\ UNCHANGED otherThanStore

SpecStore == Init /\ [][NextStore]_vars

NextTyping ==
  (\E u \in TypingUnits, isTypingNow \in BOOLEAN : handleTypingChange(u, isTypingNow))
    /\ UNCHANGED otherThanTyping

SpecTyping == Init /\ [][NextTyping]_vars

(***************************************************************************)
(* Claims about the draft and its saves.                                   *)
(***************************************************************************)
SaveRequests == { r \in inflight : r.kind \in {"create", "update"} }

CreateRequests == { r \in inflight : r.kind = "create" }

\* C1: every save that is issued (debounce-fired or manual) carries the
\* content of the latest edit the user made to the unit before the save was
\* issued, never an earlier value.
C1_SaveCarriesLatestEdit ==
  \A r \in SaveRequests : r.content = r.latest

\* C2: once the draft is IDENTIFIED every later draft save issues updateEntry
\* with the draft's entryId and never createEntry, so one draft never
\* produces two server entries.
C2_IdentifiedDraftNeverCreates ==
  /\ \A r \in CreateRequests : r.draftIdAtIssue = NoId
  /\ \A r \in SaveRequests : r.kind = "update" => r.id = r.draftIdAtIssue
  /\ Cardinality(draftMade) <= 1

\* C3: at most one createEntry request is in flight, the CREATING state is
\* marked by the in-flight flags for as long as the request is out, and a
\* debounce firing or manual trigger that arrives meanwhile issues no request.
C3_SingleCreateInFlight ==
  /\ Cardinality(CreateRequests) <= 1
  /\ HasCreateInFlight => isSavingDraftRef /\ isSavingRef
  /\ trig # "issued"

\* C3 witness: a create is in flight and a non-empty trigger that arrived
\* meanwhile was suppressed.
C3_Witness == HasCreateInFlight /\ trig = "suppressed"

\* C4: starting from an EMPTY draft, one non-empty edit followed by the
\* debounce interval with no further input issues exactly one
\* createEntry(scopeDate, content); when it succeeds the draft is IDENTIFIED
\* with the id the gateway returned.
C4_EditThenDebounceCreatesOnce ==
  /\ scen = "fired" =>
       /\ \E r \in CreateRequests : r.date = targetDate /\ r.content = Trim(lastEdit)
       /\ Cardinality({ r \in SaveRequests : r.date = targetDate }) = 1
  /\ scen = "done" => draftEntryId # NoId /\ draftEntryId = nextId - 1

\* C4 scenario completed: the create issued by the debounce succeeded and the
\* draft carries the id the backend assigned
C4_Witness == scen = "done" /\ draftEntryId = nextId - 1

\* C5: an entry that a create of the draft added to the collection is shown
\* through the draft slot only, never as a plain list row.
C5_CreatedEntryNotAListRow ==
  ~loading =>
    /\ \A i \in 1..Len(otherEntries) : otherEntries[i] \notin draftMade
    /\ \A i \in 1..Len(otherEntries) : otherEntries[i] # draftEntryId

\* C6: after a scope-date change the Draft Record is EMPTY and stays so until
\* an edit is made for the new date, and the collection shown for the new
\* date holds no entry of another date, whatever response arrives meanwhile.
C6_EmptyAfterDateChange ==
  lastEdit = NoEdit =>
    /\ EmptyRecord
    /\ ~loading => \A e \in Range(entries) : e.date = targetDate

(***************************************************************************)
(* Claims about the session refresh.                                       *)
(***************************************************************************)
AllGot401 == \A c \in Calls : calls[c].first401

WaitingOn(p) == { c \in Calls : calls[c].pc = "waiting" /\ calls[c].awaiting = p }

\* C7 as stated: N >= 2 calls to non-auth endpoints that were outstanding
\* together and each received a 401 cause exactly one refresh request in
\* total, whatever the order of the 401 responses and the refresh response.
C7_ExactlyOneRefreshInTotal ==
  (allOutstanding /\ AllGot401) => Len(refreshes) = 1

\* C7 amended: every 401 that arrives while a refresh is in flight awaits that
\* refresh, so the calls cause exactly one refresh request provided no 401
\* arrives after a refresh has completed.
C7_OneRefreshPerOverlap ==
  /\ (allOutstanding /\ AllGot401 /\ ~late401) => Len(refreshes) = 1
  /\ \A c \in Calls :
       calls[c].pc = "waiting" =>
         /\ calls[c].awaiting = refreshPromise
         /\ refreshes[calls[c].awaiting].pc = "sent"

\* C7 witness: all calls got their 401 before the refresh response, one
\* refresh served them all and each was retried
C7_Witness ==
  /\ allOutstanding
  /\ \A c \in Calls : calls[c].first401 /\ calls[c].resumed = "ok"
  /\ Len(refreshes) = 1

\* C8: at every reachable state at most one refresh request is in flight.
C8_AtMostOneRefreshInFlight == Cardinality(RefreshesInFlight) <= 1

\* C8 witness: a refresh is in flight and two calls or more are waiting on it
C8_Witness ==
  \E p \in RefreshesInFlight : Cardinality(WaitingOn(p)) >= 2

\* C9: a call is sent at most twice, the second time only after a refresh it
\* awaited succeeded and then exactly once; a 401 on the retry fails the call
\* without a refresh and without a third attempt.
C9_AtMostOneRetry ==
  \A c \in Calls :
    /\ calls[c].sends <= 2
    /\ calls[c].sends = 2 <=> calls[c].resumed = "ok"
    /\ calls[c].pc = "waiting" => calls[c].sends = 1
    /\ calls[c].resumed = "failed" => calls[c].pc = "failed" /\ calls[c].status = 401

\* C9 witness: a retried call received a second 401 and failed
C9_Witness ==
  \E c \in Calls :
    calls[c].sends = 2 /\ calls[c].pc = "failed" /\ calls[c].status = 401

\* C10: a 401 from /auth/me or /auth/refresh never starts a refresh and is
\* never retried; a refresh request that receives 401 starts no nested refresh.
C10_AuthEndpointsNeverRefresh ==
  /\ \A c \in Calls :
       calls[c].endpoint \in { MeEndpoint, RefreshEndpoint } =>
         /\ calls[c].pc # "waiting"
         /\ calls[c].sends <= 1
         /\ calls[c].resumed = "no"
  /\ \A p \in 1..Len(refreshes) :
       /\ refreshes[p].pc # "waiting"
       /\ refreshes[p].starter \in Calls
       /\ calls[refreshes[p].starter].endpoint \notin { MeEndpoint, RefreshEndpoint }

\* C10 witness: an identity call failed on its 401 and a refresh request
\* failed on its own 401
C10_Witness ==
  /\ \E c \in Calls :
       calls[c].endpoint = MeEndpoint /\ calls[c].pc = "failed" /\ calls[c].status = 401
  /\ \E p \in 1..Len(refreshes) :
       refreshes[p].pc = "failed" /\ refreshes[p].status = 401

\* C11: while the credential is expired and the refresh succeeds, a
\* getByDate, createEntry or updateEntry call of the engine refreshes and
\* completes on its retry: no such call fails unless a refresh has failed.
C11_ExpiredCallRecovers ==
  (\A p \in 1..Len(refreshes) : refreshes[p].pc # "failed")
    => \A c \in Calls : jcalls[c].pc # "failed"

\* C12: when the shared refresh fails, every call awaiting it, the one that
\* started it included, fails with its own 401 error and is not sent again.
C12_FailedRefreshFailsWaiters ==
  [][\A c \in Calls :
       (/\ calls[c].pc = "waiting"
        /\ refreshes[calls[c].awaiting].pc = "sent"
        /\ refreshes'[calls[c].awaiting].pc = "failed")
         => /\ calls'[c].pc = "failed"
            /\ calls'[c].status = 401
            /\ calls'[c].resumed = "failed"
            /\ calls'[c].sends = calls[c].sends]_vars

\* C12 witness: a refresh failed and two calls or more, its starter among
\* them, ended with their 401 after one send
C12_Witness ==
  \E p \in 1..Len(refreshes) :
    /\ refreshes[p].pc = "failed"
    /\ calls[refreshes[p].starter].resumed = "failed"
    /\ Cardinality({ c \in Calls : /\ calls[c].resumed = "failed"
                                   /\ calls[c].pc = "failed"
                                   /\ calls[c].status = 401
                                   /\ calls[c].sends = 1 }) >= 2

(***************************************************************************)
(* C13: a manual trigger on an entry (Cmd/Ctrl+Enter in its editor, or     *)
(* Enter / blur of its time input) cancels every pending debounce timer of *)
(* that entry before the manual save is issued, so that no debounced save  *)
(* armed by an earlier edit can fire after it.                             *)
(***************************************************************************)
C13_ManualTriggerCancelsTimers ==
  [][\A id \in EntryIds :
       (EntryManualSave(id) \/ TimestampSave(id))
         => /\ ~unitBlockTimer'[id].on
            /\ ~unitEditorTimer'[id].on]_vars

\* the update and delete requests of entry id that are in flight
SavesInFlight(id) ==
  { i \in 1..Len(requests) : requests[i].kind \in {"update", "delete"} /\ requests[i].id = id }

(***************************************************************************)
(* C14: every committed entry has at most one update or delete request in  *)
(* flight at any time.                                                     *)
(***************************************************************************)
C14_OneRequestPerEntry ==
  \A id \in EntryIds : Cardinality(SavesInFlight(id)) <= 1

\* nothing of the draft is in flight or armed: only the user can act
DraftQuiescent ==
  /\ inflight = {}
  /\ ~blockTimer.on
  /\ ~editorTimer.on
  /\ ~isSavingDraftRef
  /\ pendingDraftEntryIdRef = NoId

(***************************************************************************)
(* C15: a manual trigger on the draft received while a save of the draft   *)
(* is in flight is not lost: the view never comes to rest (nothing in      *)
(* flight, no timer armed) with the text of that trigger still unsaved and *)
(* no edit or trigger made since.                                          *)
(***************************************************************************)
C15_ManualTriggerNotLost ==
  ~(owed # NoEdit /\ DraftQuiescent)

(***************************************************************************)
(* C16: an entry has a single debounce timer, re-armed by every edit, so   *)
(* that a burst of edits followed by one quiet interval produces exactly   *)
(* one debounced save call: the quiet interval of an entry adds at most    *)
(* one request.                                                            *)
(***************************************************************************)
C16_OneSavePerQuietInterval ==
  [][\A id \in EntryIds :
       EntryDebounce(id) => Len(requests') <= Len(requests) + 1]_vars

DeleteRequest(id) == [kind |-> "delete", id |-> id, content |-> Empty]

\* a save trigger of entry id (manual, or its debounce) that carries text
\* trimming to empty while the entry is in the dirty set
EmptySaveTrigger(id) ==
  /\ id \in editedEntryIds
  /\ \/ EntryManualSave(id) /\ Trim(entryContents[id]) = Empty
     \/ /\ EntryDebounce(id)
        /\ unitEditorTimer[id].on
        /\ Trim(unitEditorTimer[id].content) = Empty

(***************************************************************************)
(* C17: a save trigger carrying empty text for a dirty committed entry     *)
(* issues exactly one deleteEntry(id) and no updateEntry, and once the     *)
(* delete succeeds the entry is absent from the collection.                *)
(***************************************************************************)
C17_EmptySaveDeletesOnce ==
  [][/\ \A id \in EntryIds :
          EmptySaveTrigger(id) => requests' = Append(requests, DeleteRequest(id))
     /\ \A i \in 1..Len(requests) :
          EntryDeleteResponseOk(i) => ~HasEntry(entries', requests[i].id)]_vars

\* a save trigger of the draft (manual, or its debounce) that carries text
\* trimming to empty while the draft is backed by an entry of the collection
\* and no save of the draft is in flight
EmptyDraftTrigger ==
  /\ draftEntryId # NoId
  /\ HasEntry(entries, draftEntryId)
  /\ ~isSavingDraftRef
  /\ Trim(draftContent) = Empty
  /\ \/ DraftManualSave
     \/ /\ DraftDebounce
        /\ editorTimer.on
        /\ Trim(editorTimer.content) = Empty

(***************************************************************************)
(* C18: for a unit backed by a server entry, the identified draft          *)
(* included, a manual or debounced save trigger with empty text issues a   *)
(* deleteEntry for the backing entry; it is never a silent no-op.          *)
(***************************************************************************)
C18_EmptyDraftSaveDeletes ==
  [][EmptyDraftTrigger =>
       \E r \in inflight' : r.kind = "delete" /\ r.id = draftEntryId]_vars

(***************************************************************************)
(* JournalDayView.hasUnsavedChanges, the memo behind the header's unsaved  *)
(* marker.  (hasInitialized is set by the sync effect in the commit that   *)
(* follows mount or a date change, so it is true whenever a task ends.)    *)
(***************************************************************************)
hasUnsavedChanges ==
  hasUnsavedChangesOf(loading, TRUE, editedEntryIds, draftEntryId, draftContent, entries)

MatchesServer(contents, ents, id) ==
  HasEntry(ents, id) /\ Trim(contents[id]) = Trim(ContentOf(ents, id))

(***************************************************************************)
(* C20: when a dirty committed entry is edited back to its last-known      *)
(* server content (equal after trimming) the entry leaves the dirty set    *)
(* and, no other entry being dirty, hasUnsavedChanges is false; and when   *)
(* the debounce armed by that edit elapses, the entry still clean and at   *)
(* its server content, no update or delete request is issued.              *)
(***************************************************************************)
C20_BackToServerContentIsClean ==
  [][\A id \in EntryIds :
       /\ ( /\ \E raw \in RawInputs : EntryEdit(id, raw)
            /\ id \in editedEntryIds
            /\ MatchesServer(entryContents', entries, id) )
            => /\ id \notin editedEntryIds'
               /\ editedEntryIds \ {id} = {} => ~hasUnsavedChanges'
       /\ ( /\ EntryDebounce(id)
            /\ id \notin editedEntryIds
            /\ MatchesServer(entryContents, entries, id)
            /\ unitEditorTimer[id].on
            /\ unitEditorTimer[id].content = entryContents[id] )
            => requests' = requests]_vars

(***************************************************************************)
(* C21: an entry leaves the dirty set only when its local text matches its *)
(* server content (after an edit of its own, or against the collection as  *)
(* it is after a load or an applied response), by its own confirmed save,  *)
(* or by its deletion.                                                     *)
(***************************************************************************)
C21_DirtyMarkRemovedOnlyByOwnSave ==
  [][\A id \in EntryIds :
       (id \in editedEntryIds /\ id \notin editedEntryIds')
         => \/ \E raw \in RawInputs :
                 EntryEdit(id, raw) /\ MatchesServer(entryContents', entries', id)
            \/ MatchesServer(entryContents, entries', id)
            \/ \E i \in 1..Len(requests) :
                 EntryUpdateResponseOk(i) /\ requests[i].id = id
            \/ ~HasEntry(entries', id)]_vars

C23_NotFoundDeleteRemovesEntry ==
  [][\A i \in 1..Len(requests) :
       EntryDeleteNotFound(i) => ~HasEntry(entries', requests[i].id)]_vars

(***************************************************************************)
(* C24: a rejected save that was started by a manual trigger is shown to   *)
(* the user, one started by the debounce timer is only logged; the failure *)
(* of a manual save is never swallowed.                                    *)
(***************************************************************************)
C24_ManualFailureIsShown ==
  \A a \in Attempts :
    attempts[a].pc = "logged" => (a \in errorShown <=> attempts[a].isManualSave)

(***************************************************************************)
(* C25: whenever no list request is in flight the collection holds entries *)
(* of the viewed date only, also when the date changes several times in    *)
(* quick succession and the list answers arrive out of order.              *)
(***************************************************************************)
C25_CollectionIsOfViewedDate ==
  LoadsInFlight = 0 => \A e \in Range(entries) : e.date = targetDate

(***************************************************************************)
(* C26: in every rendered state the persisted entries shown to the user    *)
(* (the plain rows, then the entry backing the identified draft) appear in *)
(* non-decreasing writtenAt order.                                         *)
(***************************************************************************)
C26_RenderedInWrittenAtOrder ==
  \A i, j \in 1..Len(Rendered) :
    i < j => Rendered[i].writtenAt <= Rendered[j].writtenAt

\* the part the memo does guarantee: the plain rows alone are in order
OtherEntriesInOrder ==
  \A i, j \in 1..Len(OrdOtherEntries) :
    i < j => OrdOtherEntries[i].writtenAt <= OrdOtherEntries[j].writtenAt

(***************************************************************************)
(* C27: confirming a timestamp edit on a committed entry with non-empty    *)
(* content issues one updateEntry request for that entry with the entry's  *)
(* current content, also when the content is not dirty.                    *)
(***************************************************************************)
C27_TimestampConfirmIssuesUpdate ==
  [][\A id \in EntryIds :
       TimestampSave(id)
         => requests' = Append(requests, [kind |-> "update", id |-> id,
                                          content |-> Trim(entryContents[id])])]_vars

\* the days within the 7-day window ending at D, other than D, whose metric
\* set is incomplete
MissingBefore(D) ==
  { d \in Days : d # D /\ D - 6 <= d /\ d <= D /\ d \in incomplete }

StrictlyDescending(q) == \A i, j \in 1..Len(q) : i < j => q[i] > q[j]

\* what the answer of a completion check for D leaves behind
QueueSetFor(D) ==
  IF MissingBefore(D) # {}
  THEN /\ Range(pendingIncompleteDates') = MissingBefore(D)
       /\ Len(pendingIncompleteDates') = Cardinality(MissingBefore(D))
       /\ StrictlyDescending(pendingIncompleteDates')
       /\ isCompletionPromptOpen'
  ELSE /\ pendingIncompleteDates' = <<>>
       /\ isCompletionPromptOpen' = isCompletionPromptOpen

AtHeadDate ==
  /\ pendingIncompleteDates # <<>>
  /\ Head(pendingIncompleteDates) = viewedDate
  /\ ~openPopupTimer

\* the head date is removed; the prompt reopens if dates remain
HeadRemoved ==
  /\ pendingIncompleteDates' = Tail(pendingIncompleteDates)
  /\ isCompletionPromptOpen' = (Tail(pendingIncompleteDates) # <<>>)

DeclineDiscardsQueue ==
  handleCompletionPromptClose
    => (pendingIncompleteDates' = <<>> /\ ~isCompletionPromptOpen')

NoPromptAfterDeclineButPendingCheck ==
  [][/\ DeclineDiscardsQueue
     /\ (declined /\ ~CompletionCheckOk
           /\ ~\E complete \in BOOLEAN : MetricsSaveOk(complete))
          => (pendingIncompleteDates' = <<>> /\ ~isCompletionPromptOpen')]_vars

\* the prompt has been declined while day 1 is still incomplete, and the
\* user has since moved on and opened the metrics popup
DeclinedWithIncompleteLeft ==
  /\ declined
  /\ lastSavedDate # 0
  /\ incomplete \ {lastSavedDate} # {}
  /\ pendingIncompleteDates = <<>>
  /\ ~isCompletionPromptOpen
  /\ ~completionCheck.on
  /\ isMetricsPopupOpen

(***************************************************************************)
(* Claims about the typing aggregation.                                    *)
(***************************************************************************)
\* the flag of the most recent call for a unit; FALSE if it never reported
LatestFlag(u) ==
  LET calls_u == {i \in 1..Len(typingLog) : typingLog[i].unit = u}
  IN  IF calls_u = {} THEN FALSE
      ELSE typingLog[CHOOSE i \in calls_u : \A j \in calls_u : j <= i].flag

DraftRequestOutstanding == \E r \in inflight : r.kind \in {"create", "update"}

\* a save trigger of the draft with non-empty text
NonEmptyTrigger ==
  \/ DraftManualSave /\ Trim(htmlToMarkdown(draftContent)) # Empty
  \/ DraftDebounce /\ \/ blockTimer.on /\ Trim(blockTimer.content) # Empty
                      \/ editorTimer.on /\ Trim(editorTimer.content) # Empty

(***************************************************************************)
(* C33: the draft's in-flight flag is set only while a create or update of *)
(* the draft is outstanding; success and failure both release it; and      *)
(* after a failed save a later debounce or manual trigger with non-empty   *)
(* text sends a new request.                                               *)
(***************************************************************************)
C33_FlagReleasedAndSaveRetried ==
  [][/\ isSavingDraftRef' => DraftRequestOutstanding'
     /\ (\E r \in inflight :
            CreateResponseOk(r) \/ UpdateResponseOk(r) \/ SaveResponseFail(r))
          => ~isSavingDraftRef'
     /\ (afterFailure = "failed" /\ ~DraftRequestOutstanding /\ NonEmptyTrigger)
          => (IssuesSave /\ isSavingDraftRef')]_vars

\* a save of the draft failed, the user triggered another save, and its
\* request is outstanding with the flag set
C33_Witness ==
  /\ afterFailure = "reissued"
  /\ isSavingDraftRef
  /\ DraftRequestOutstanding

(***************************************************************************)
(* C34: a create or update response for the draft never replaces text the  *)
(* user typed after the request was sent: after the response has been      *)
(* processed the draft's local content is still the user's latest edit.    *)
(***************************************************************************)
C34_ResponseKeepsLaterEdit ==
  [][\A r \in inflight :
       (/\ CreateResponseOk(r) \/ UpdateResponseOk(r)
        /\ r.date = targetDate
        /\ lastEdit # NoEdit
        /\ draftContent = lastEdit
        /\ Trim(lastEdit) # Empty
        /\ Trim(lastEdit) # r.latest)
         => draftContent' = lastEdit]_vars

(***************************************************************************)
(* C35: the completion of a save or delete of one unit never replaces the  *)
(* local unsaved text of a different committed entry A by A's server       *)
(* content.                                                                *)
(***************************************************************************)
C35_OtherEntryKeepsUnsavedText ==
  [][\A i \in 1..Len(requests), A \in EntryIds :
       (/\ EntryUpdateResponseOk(i) \/ EntryDeleteResponseOk(i)
        /\ requests[i].id # A
        /\ HasEntry(entries, A)
        /\ A \in editedEntryIds
        /\ Trim(entryContents[A]) # Empty
        /\ ~MatchesServer(entryContents, entries, A))
         => entryContents'[A] = entryContents[A]]_vars

(***************************************************************************)
(* C36: every entry of the collection whose id differs from the draft's    *)
(* entryId and from the pending entry id is shown as a list row, also      *)
(* while a create of the draft is in flight and the entry's trimmed text   *)
(* equals the draft's.                                                     *)
(***************************************************************************)
C36_OtherEntriesAreListRows ==
  \A e \in Range(entries) :
    (~loading /\ e.id # draftEntryId /\ e.id # pendingDraftEntryIdRef)
      => e.id \in Range(otherEntries)

(***************************************************************************)
(* C37: a failed list request leaves the collection and the Draft Record   *)
(* (entryId and local content) as they were before the request.            *)
(***************************************************************************)
C37_FailedListChangesNothing ==
  [][\A i \in 1..Len(requests) :
       EntryListResponse(i, FALSE)
         => /\ entries' = entries
            /\ draftEntryId' = draftEntryId
            /\ draftContent' = draftContent]_vars

(***************************************************************************)
(* Claims about the unsaved-changes indicator of the draft.                *)
(***************************************************************************)
\* hasUnsavedChanges of the view once loading has ended (hasInitialized is
\* set by the sync effect of the first commit) and no entry is dirty
DraftIndicatorUnsaved ==
  hasUnsavedChangesOf(loading, TRUE, {}, draftEntryId, draftContent, entries)

(***************************************************************************)
(* C38: whenever the view is loaded and hasUnsavedChanges is false, the    *)
(* draft is either empty with no entryId, or its trimmed local content     *)
(* equals the trimmed server content of the entry with its entryId; in     *)
(* particular the indicator does not read synced for a draft whose entryId *)
(* is missing from the collection while it holds unsaved content.          *)
(***************************************************************************)
C38_SyncedMeansDraftSaved ==
  (~loading /\ ~DraftIndicatorUnsaved)
    => \/ draftEntryId = NoId /\ Trim(draftContent) = Empty
       \/ /\ draftEntryId # NoId
          /\ HasEntry(entries, draftEntryId)
          /\ Trim(draftContent) = Trim(ContentOf(entries, draftEntryId))

\* the indicator reads synced although the draft's entryId is missing from
\* the collection and the backend holds no entry with the draft's text
SyncedWithUnsavedOrphanDraft ==
  /\ ~loading
  /\ ~DraftIndicatorUnsaved
  /\ draftEntryId # NoId
  /\ ~HasEntry(entries, draftEntryId)
  /\ Trim(draftContent) # Empty
  /\ \A e \in server : Trim(e.content) # Trim(draftContent)

(***************************************************************************)
(* Claims about the Entry Collection Store.                                *)
(***************************************************************************)
NoDuplicateIds(ents) ==
  \A i, j \in 1..Len(ents) : ents[i].id = ents[j].id => i = j

(***************************************************************************)
(* C39: after any sequence of load, create, update and delete completions  *)
(* the collection never holds two entries with the same id (every list     *)
(* answer listing each id once), and applying a create whose id is already *)
(* present leaves the collection as it is.                                 *)
(***************************************************************************)
C39_NoDuplicateIds ==
  [][/\ NoDuplicateIds(storeEntries')
     /\ \A a \in storeAnswers :
          (StoreCreateAnswer(a, TRUE) /\ HasEntry(storeEntries, a.entry.id))
            => storeEntries' = storeEntries]_vars

\* a list answer brought the created entry before the create's own answer
\* was applied, and the collection holds two entries
C39_Witness ==
  /\ storeSkipped
  /\ Len(storeEntries) = 2

(***************************************************************************)
(* C40: after a refresh completes, successfully or not, the coordinator is *)
(* idle again (no refresh flagged in flight, no shared promise), so a 401  *)
(* received later starts a new refresh instead of awaiting a settled one.  *)
(***************************************************************************)
C40_IdleAfterRefresh ==
  [][/\ \A p \in 1..Len(refreshes) :
          (refreshes[p].pc = "sent" /\ refreshes'[p].pc \in {"ok", "failed"})
            => (~isRefreshing' /\ refreshPromise' = NoPromise)
     /\ (RefreshesInFlight' = {}) => (~isRefreshing' /\ refreshPromise' = NoPromise)
     /\ \A c \in Calls :
          (/\ RefreshCompleted
           /\ RefreshesInFlight = {}
           /\ CallResponse(c, 401)
           /\ ShouldRefresh(calls[c].endpoint, 401, calls[c].retryOn401))
            => /\ Len(refreshes') = Len(refreshes) + 1
               /\ refreshes'[Len(refreshes')].pc = "sent"
               /\ calls'[c].pc = "waiting"
               /\ calls'[c].awaiting = Len(refreshes')
               /\ isRefreshing' /\ refreshPromise' = Len(refreshes')]_vars

\* one refresh has completed and a 401 that arrived later has started a
\* second one, which its call awaits
C40_Witness ==
  /\ Len(refreshes) = 2
  /\ refreshes[1].pc \in {"ok", "failed"}
  /\ refreshes[2].pc = "sent"
  /\ isRefreshing
  /\ refreshPromise = 2
  /\ \E c \in Calls : calls[c].pc = "waiting" /\ calls[c].awaiting = 2

====
